---- MODULE Spec2Model ----
(***************************************************************************)
(* A model of the knowledge engine: the SQLite-backed graph store          *)
(* (core/knowledge_graph.py) and the active context, a recency-ordered     *)
(* cache persisted to a JSON state file (core/active_context.py).          *)
(***************************************************************************)
EXTENDS Integers, Sequences, FiniteSets, TLC

\* ------------------------------------------------------------------ bounds

\* The URIs of the model, and the three of them that the specifications
\* with a store use.
URIS == {"u1", "u2", "u3", "u4"}
CoreUris == {"u1", "u2", "u3"}

\* max_size, the constructor's argument, ranges over 1..MaxSizeBound.
MaxSizeBound == 2

\* A node's node_type, name, content and metadata are abstracted to one
\* version; created_at and updated_at are times.
Versions == {1, 2}
Times == {1, 2}

\* Relation weights and max_cost are integers in 0..MaxCost.
MaxCost == 2

\* The store's specification stops inserting relations at id MaxId.
MaxId == 2

VARIABLES
    max_size,        \* ActiveContext.max_size
    nodes,           \* ActiveContext.nodes: the OrderedDict, oldest entry first
    protected_uris,  \* ActiveContext._protected_uris
    file,            \* the content of the state file at _context_path
    hash_order,      \* the iteration order of this process's str sets
    kgNodes,         \* the rows of table nodes
    kgRelations,     \* the rows of table relations
    nextId,          \* the AUTOINCREMENT counter of relations.id
    tpc,             \* the process is "idle", in the "loop" of traverse, or
                     \* in _save ("save") between open and json.dump
    queue,           \* traverse: the deque of <<uri, cost>>
    visited_costs,   \* traverse: visited_costs
    context_nodes,   \* traverse: context_nodes
    max_cost,        \* traverse: its max_cost argument
    start_uri,       \* traverse: its start_uri argument
    last,            \* the last operation and what it returned
    run,             \* the non-protected adds made since the cache was empty
    peer,            \* the fields of a second ActiveContext on the same file
    txn              \* the transaction open on the store's connection, and
                     \* the arguments of the last move_node

vars == <<max_size, nodes, protected_uris, file, hash_order, kgNodes,
          kgRelations, nextId, tpc, queue, visited_costs, context_nodes,
          max_cost, start_uri, last, run, peer, txn>>

cacheVars == <<max_size, nodes, protected_uris, file, hash_order>>
storeVars == <<kgNodes, kgRelations, nextId>>
travVars == <<tpc, queue, visited_costs, context_nodes, max_cost, start_uri>>
otherVars == <<peer, txn>>

\* ------------------------------------------------------------------ values

\* Optional[Node]'s None.
None == [uri |-> "none", ver |-> 0, created_at |-> 0, updated_at |-> 0]

\* models.Node
Node == [uri : URIS, ver : Versions, created_at : Times, updated_at : Times]

MkNode(u, v) == [uri |-> u, ver |-> v, created_at |-> 1, updated_at |-> 1]

Min(a, b) == IF a < b THEN a ELSE b

Range(s) == {s[i] : i \in 1..Len(s)}

\* The sequences of distinct elements of S.
RECURSIVE DistinctSeqs(_)
DistinctSeqs(S) ==
    {<<>>} \cup UNION {{<<x>> \o s : s \in DistinctSeqs(S \ {x})} : x \in S}

Reverse(s) == [i \in 1..Len(s) |-> s[Len(s) + 1 - i]]

\* ------------------------------------------------------------ OrderedDict

Entry(u, n) == [uri |-> u, node |-> n]

\* list(od.keys())
Keys(od) == [i \in 1..Len(od) |-> od[i].uri]

\* uri in od
Has(od, u) == \E i \in 1..Len(od) : od[i].uri = u

\* od[uri]
Value(od, u) == od[CHOOSE i \in 1..Len(od) : od[i].uri = u].node

\* move_to_end that leaves the entry where it is.
MoveToEndStays(od, u) == od

\* od.move_to_end(uri)
MoveToEnd(od, u) ==
    SelectSeq(od, LAMBDA e : e.uri # u) \o SelectSeq(od, LAMBDA e : e.uri = u)

\* od[uri] = node: in place for a key that is present, appended otherwise.
SetItem(od, u, n) ==
    IF Has(od, u)
    THEN [i \in 1..Len(od) |-> IF od[i].uri = u THEN Entry(u, n) ELSE od[i]]
    ELSE Append(od, Entry(u, n))

\* ------------------------------------------------------------- state file

\* The state file: absent, not JSON, a JSON scalar, a JSON list (the old
\* format) or a JSON object.  In an object, each of "nodes" and
\* "protected_uris" is missing, a list or a number.
AbsentFile == [kind |-> "absent", nodesT |-> "missing", nodes |-> <<>>,
               protT |-> "missing", prot |-> <<>>]

JsonObject(ns, ps) == [kind |-> "dict", nodesT |-> "list", nodes |-> ns,
                       protT |-> "list", prot |-> ps]

\* The URIs in text order.
UriOrder == <<"u1", "u2", "u3", "u4">>

\* The iteration orders of a set of str the model tries: the order depends
\* on the process's hash seed.
HashOrders == {UriOrder, Reverse(UriOrder)}

\* list(set) in this process.
ListOfSet(S) == SelectSeq(hash_order, LAMBDA u : u \in S)

\* A cache state: what _save, add, get and clear read and write.
Cache(ns, ps, f) == [nodes |-> ns, protected_uris |-> ps, file |-> f]

\* _save that keeps what the file lists next to the fields of the instance.
SaveMerging(c) ==
    [c EXCEPT !.file =
        JsonObject(Keys(c.nodes) \o SelectSeq(c.file.nodes,
                        LAMBDA u : u \notin Range(Keys(c.nodes))),
                   ListOfSet(c.protected_uris \cup Range(c.file.prot)))]

\* ActiveContext._save
Save(c) ==
    [c EXCEPT !.file = JsonObject(Keys(c.nodes), ListOfSet(c.protected_uris))]

\* The OrderedDict of placeholders _load builds from a list of URIs.
RECURSIVE Placeholders(_)
Placeholders(uris) ==
    IF uris = <<>> THEN <<>>
    ELSE SetItem(Placeholders(SubSeq(uris, 1, Len(uris) - 1)),
                 uris[Len(uris)], None)

\* Load, building the OrderedDict from the last URI of the file to the first.
LoadReversed(f) ==
    [nodes |-> Placeholders(Reverse(f.nodes)),
     protected_uris |-> Range(f.prot), raised |-> FALSE]

\* ActiveContext._load on a new instance: the fields it leaves, and whether
\* an exception escapes it.
Load(f) ==
    CASE f.kind \in {"absent", "invalid", "scalar"} ->
            [nodes |-> <<>>, protected_uris |-> {}, raised |-> FALSE]
      [] f.kind = "list" ->
            [nodes |-> Placeholders(f.nodes), protected_uris |-> {},
             raised |-> FALSE]
      [] f.kind = "dict" ->
            IF f.protT = "number"
            THEN \* set(5): TypeError, which the except clause does not name
                 [nodes |-> <<>>, protected_uris |-> {}, raised |-> TRUE]
            ELSE IF f.nodesT = "number"
            THEN \* for uri in 5: TypeError, after _protected_uris was set
                 [nodes |-> <<>>, protected_uris |-> Range(f.prot),
                  raised |-> TRUE]
            ELSE [nodes |-> Placeholders(f.nodes),
                  protected_uris |-> Range(f.prot), raised |-> FALSE]

\* ------------------------------------------------------------------ store

\* KnowledgeGraph.get_node: the row, or None.
KgGetNode(u) == IF u \in DOMAIN kgNodes THEN kgNodes[u] ELSE None

\* sqlite3.connect without PRAGMA foreign_keys = ON: SQLite does not enforce
\* the FOREIGN KEY clauses of table relations.
ForeignKeys == FALSE

\* A function without u in its domain.
Without(rows, u) == [x \in DOMAIN rows \ {u} |-> rows[x]]

\* KnowledgeGraph.add_node: INSERT ... ON CONFLICT(uri) DO UPDATE, which
\* sets every column but created_at.
AddNodeRows(rows, node) ==
    [x \in DOMAIN rows \cup {node.uri} |->
        IF x # node.uri THEN rows[x]
        ELSE IF x \in DOMAIN rows
             THEN [node EXCEPT !.created_at = rows[x].created_at]
             ELSE node]

\* KnowledgeGraph.update_node: UPDATE nodes ... WHERE uri = ?
UpdateNodeRows(rows, node) ==
    IF node.uri \in DOMAIN rows
    THEN [rows EXCEPT ![node.uri] =
            [node EXCEPT !.created_at = rows[node.uri].created_at]]
    ELSE rows

\* The rows of relations that ON DELETE CASCADE leaves when nodes row u is
\* deleted.
Cascade(rels, u) ==
    IF ForeignKeys
    THEN {r \in rels : r.source_uri # u /\ r.target_uri # u}
    ELSE rels

SameTriple(r, src, tgt, ty) ==
    r.source_uri = src /\ r.target_uri = tgt /\ r.relation_type = ty

\* add_relation on a table without the UNIQUE constraint: every call makes
\* a row.
AddRelationRowsAlways(rels, id, src, tgt, ty, w, meta) ==
    rels \cup {[id |-> id, source_uri |-> src, target_uri |-> tgt,
                relation_type |-> ty, weight |-> w, metadata |-> meta]}

\* add_relation as an upsert: ON CONFLICT ... DO UPDATE of weight and
\* metadata.
AddRelationRowsReplace(rels, id, src, tgt, ty, w, meta) ==
    IF \E r \in rels : SameTriple(r, src, tgt, ty)
    THEN {IF SameTriple(r, src, tgt, ty)
          THEN [r EXCEPT !.weight = w, !.metadata = meta] ELSE r : r \in rels}
    ELSE rels \cup {[id |-> id, source_uri |-> src, target_uri |-> tgt,
                     relation_type |-> ty, weight |-> w, metadata |-> meta]}

\* KnowledgeGraph.add_relation: INSERT ... ON CONFLICT(source_uri,
\* target_uri, relation_type) DO NOTHING, the new row taking id `id`.
AddRelationRows(rels, id, src, tgt, ty, w, meta) ==
    IF \E r \in rels : SameTriple(r, src, tgt, ty)
    THEN rels
    ELSE rels \cup {[id |-> id, source_uri |-> src, target_uri |-> tgt,
                     relation_type |-> ty, weight |-> w, metadata |-> meta]}

\* UPDATE relations SET source_uri = new WHERE source_uri = old
SetSource(rels, old, new) ==
    {IF r.source_uri = old THEN [r EXCEPT !.source_uri = new] ELSE r : r \in rels}

\* UPDATE relations SET target_uri = new WHERE target_uri = old
SetTarget(rels, old, new) ==
    {IF r.target_uri = old THEN [r EXCEPT !.target_uri = new] ELSE r : r \in rels}

\* UNIQUE(source_uri, target_uri, relation_type), and id is the primary key.
UniqueTriples(rels) ==
    \A r1, r2 \in rels :
        SameTriple(r1, r2.source_uri, r2.target_uri, r2.relation_type) => r1 = r2

\* move_node without the SELECT that looks for new_uri: the row of new_uri
\* is overwritten.
MoveNodeUnchecked(rows, rels, old, new) ==
    LET rows2 == IF old \in DOMAIN rows
                 THEN [x \in (DOMAIN rows \ {old}) \cup {new} |->
                         IF x = new THEN [rows[old] EXCEPT !.uri = new]
                         ELSE rows[x]]
                 ELSE rows
    IN  [nodes |-> rows2, relations |-> SetTarget(SetSource(rels, old, new), old, new),
         out |-> "ok"]

\* KnowledgeGraph.move_node: the rows it leaves and how it ends: "exists"
\* (ValueError), "integrity" (an UPDATE of relations breaks UNIQUE and the
\* transaction is rolled back) or "ok".
MoveNode(rows, rels, old, new) ==
    IF new \in DOMAIN rows
    THEN [nodes |-> rows, relations |-> rels, out |-> "exists"]
    ELSE LET rows2 == IF old \in DOMAIN rows
                      THEN [x \in (DOMAIN rows \ {old}) \cup {new} |->
                              IF x = new THEN [rows[old] EXCEPT !.uri = new]
                              ELSE rows[x]]
                      ELSE rows
             rels2 == SetSource(rels, old, new)
             rels3 == SetTarget(rels2, old, new)
         IN  IF UniqueTriples(rels2) /\ UniqueTriples(rels3)
             THEN [nodes |-> rows2, relations |-> rels3, out |-> "ok"]
             ELSE [nodes |-> rows, relations |-> rels, out |-> "integrity"]

\* ------------------------------------------------------------------ cache

\* ActiveContext.add_protected_uri
AddProtectedUri(c, u) ==
    Save([c EXCEPT !.protected_uris = c.protected_uris \cup {u}])

\* ActiveContext.remove_protected_uri
RemoveProtectedUri(c, u) ==
    Save([c EXCEPT !.protected_uris = c.protected_uris \ {u}])

\* ActiveContext.is_protected
IsProtected(c, u) == u \in c.protected_uris

\* NodesToRemove without the test of is_protected.
NodesToRemoveAnyKey(c) ==
    LET need == Len(c.nodes) - max_size + 1
    IN  SubSeq(Keys(c.nodes), 1, Min(need, Len(c.nodes)))

\* NodesToRemove that stops one key early.
NodesToRemoveTooFew(c) ==
    LET cand == SelectSeq(Keys(c.nodes), LAMBDA u : ~IsProtected(c, u))
        need == Len(c.nodes) - max_size
    IN  SubSeq(cand, 1, Min(need, Len(cand)))

\* NodesToRemove walking the keys from the newest.
NodesToRemoveNewest(c) ==
    LET cand == SelectSeq(Reverse(Keys(c.nodes)), LAMBDA u : ~IsProtected(c, u))
        need == Len(c.nodes) - max_size + 1
    IN  SubSeq(cand, 1, Min(need, Len(cand)))

\* The loop of add that collects nodes_to_remove: the oldest non-protected
\* keys, until there are len(nodes) - max_size + 1 of them.
NodesToRemove(c) ==
    LET cand == SelectSeq(Keys(c.nodes), LAMBDA u : ~IsProtected(c, u))
        need == Len(c.nodes) - max_size + 1
    IN  SubSeq(cand, 1, Min(need, Len(cand)))

\* for uri in nodes_to_remove: self.nodes.pop(uri, None)
PopAll(od, uris) == SelectSeq(od, LAMBDA e : e.uri \notin Range(uris))

\* Rejects without the exemption of protected nodes.
RejectsProtectedToo(c, protected) == Len(c.nodes) >= max_size

\* The end of add's eviction branch: a node that is not protected is
\* rejected when the cache is still at capacity.
Rejects(c, protected) == Len(c.nodes) >= max_size /\ ~protected

\* Add without the eviction branch: a key that is not resident is inserted
\* whatever the length of the cache.
AddWithoutEviction(c, node, protected) ==
    LET c1 == IF protected THEN AddProtectedUri(c, node.uri) ELSE c
    IN  IF Has(c1.nodes, node.uri)
        THEN [c |-> Save([c1 EXCEPT !.nodes = MoveToEnd(c1.nodes, node.uri)]),
              out |-> "promoted", evicted |-> <<>>]
        ELSE [c |-> Save([c1 EXCEPT !.nodes = SetItem(c1.nodes, node.uri, node)]),
              out |-> "inserted", evicted |-> <<>>]

\* ActiveContext.add: the cache it leaves, what became of the node
\* ("promoted", "inserted" or "dropped") and the keys it evicted.
Add(c, node, protected) ==
    LET c1 == IF protected THEN AddProtectedUri(c, node.uri) ELSE c
    IN  IF Has(c1.nodes, node.uri)
        THEN [c |-> Save([c1 EXCEPT !.nodes = MoveToEnd(c1.nodes, node.uri)]),
              out |-> "promoted", evicted |-> <<>>]
        ELSE IF Len(c1.nodes) >= max_size
        THEN LET gone == NodesToRemove(c1)
                 c2 == [c1 EXCEPT !.nodes = PopAll(c1.nodes, gone)]
             IN  IF Rejects(c2, protected)
                 THEN \* return, without _save
                      [c |-> c2, out |-> "dropped", evicted |-> gone]
                 ELSE [c |-> Save([c2 EXCEPT
                                   !.nodes = SetItem(c2.nodes, node.uri, node)]),
                       out |-> "inserted", evicted |-> gone]
        ELSE [c |-> Save([c1 EXCEPT !.nodes = SetItem(c1.nodes, node.uri, node)]),
              out |-> "inserted", evicted |-> <<>>]

\* ActiveContext.get: the cache it leaves, the node it returns and how it
\* was found ("hit": served from the cache; else what add did, or "absent").
Get(c, u) ==
    IF Has(c.nodes, u) /\ Value(c.nodes, u) # None
    THEN [c |-> Save([c EXCEPT !.nodes = MoveToEnd(c.nodes, u)]),
          ret |-> Value(c.nodes, u), out |-> "hit", evicted |-> <<>>]
    ELSE LET node == KgGetNode(u)
         IN  IF node # None
             THEN LET a == Add(c, node, FALSE)
                  IN  [c |-> a.c, ret |-> node, out |-> a.out,
                       evicted |-> a.evicted]
             ELSE [c |-> c, ret |-> None, out |-> "absent", evicted |-> <<>>]

\* clear without the filter on is_protected.
ClearEverything(c) == Save([c EXCEPT !.nodes = <<>>])

\* ActiveContext.clear
Clear(c) ==
    Save([c EXCEPT !.nodes = SelectSeq(c.nodes, LAMBDA e : IsProtected(c, e.uri))])

\* ActiveContext.force_clear
ForceClear(c) ==
    Save([c EXCEPT !.nodes = <<>>, !.protected_uris = {}])

\* list_nodes forgetting the placeholders it cannot resolve.
ListNodesDictDropsMissing(od) ==
    SelectSeq([i \in 1..Len(od) |->
                  IF od[i].node = None THEN Entry(od[i].uri, KgGetNode(od[i].uri))
                  ELSE od[i]],
              LAMBDA e : e.node # None)

\* ActiveContext.list_nodes(kg): the OrderedDict it leaves.
ListNodesDict(od) ==
    [i \in 1..Len(od) |->
        IF od[i].node = None THEN Entry(od[i].uri, KgGetNode(od[i].uri))
        ELSE od[i]]

\* ActiveContext.list_nodes(kg): the list it returns.
ListNodesResult(od) ==
    LET r == ListNodesDict(od)
    IN  [i \in 1..Len(SelectSeq(r, LAMBDA e : e.node # None)) |->
            SelectSeq(r, LAMBDA e : e.node # None)[i].node]

\* ------------------------------------------------------------- relations

\* The relation types of the model, in text order.
TypeOrder == <<"contains", "references">>
RelTypes == Range(TypeOrder)

Pos(seq, x) == CHOOSE i \in 1..Len(seq) : seq[i] = x

\* A set of rows as a list, by ascending key (the keys are distinct).
RECURSIVE SortRows(_, _)
SortRows(S, key) ==
    IF S = {} THEN <<>>
    ELSE LET r == CHOOSE x \in S : \A y \in S : key[x] <= key[y]
         IN  <<r>> \o SortRows(S \ {r}, key)

\* KnowledgeGraph.get_relations(source_uri=u): a search of the index that
\* UNIQUE(source_uri, target_uri, relation_type) makes, in the index's order.
RelationsFrom(u) ==
    LET S == {r \in kgRelations : r.source_uri = u}
    IN  SortRows(S, [r \in S |-> Pos(UriOrder, r.target_uri) * (Len(TypeOrder) + 1)
                                  + Pos(TypeOrder, r.relation_type)])

\* KnowledgeGraph.get_relations(target_uri=u): a table scan, in rowid order.
RelationsTo(u) ==
    LET S == {r \in kgRelations : r.target_uri = u}
    IN  SortRows(S, [r \in S |-> r.id])

\* --------------------------------------------------------------- traverse

\* visited_costs[u] = cost
SetCost(vc, u, cost) ==
    [x \in DOMAIN vc \cup {u} |-> IF x = u THEN cost ELSE vc[x]]

\* Relax without the test of new_cost against max_cost.
RECURSIVE RelaxNoBudget(_, _, _, _, _, _)
RelaxNoBudget(rels, i, cur, cost, vc, q) ==
    IF i > Len(rels) THEN [vc |-> vc, q |-> q]
    ELSE LET r == rels[i]
             neighbor_uri == IF r.source_uri = cur THEN r.target_uri
                             ELSE r.source_uri
             new_cost == cost + r.weight
         IN  IF \/ neighbor_uri \notin DOMAIN vc
                \/ new_cost < vc[neighbor_uri]
             THEN RelaxNoBudget(rels, i + 1, cur, cost,
                        SetCost(vc, neighbor_uri, new_cost),
                        Append(q, <<neighbor_uri, new_cost>>))
             ELSE RelaxNoBudget(rels, i + 1, cur, cost, vc, q)

\* Relax that asks new_cost < max_cost.
RECURSIVE RelaxStrictBudget(_, _, _, _, _, _)
RelaxStrictBudget(rels, i, cur, cost, vc, q) ==
    IF i > Len(rels) THEN [vc |-> vc, q |-> q]
    ELSE LET r == rels[i]
             neighbor_uri == IF r.source_uri = cur THEN r.target_uri
                             ELSE r.source_uri
             new_cost == cost + r.weight
         IN  IF /\ new_cost < max_cost
                /\ \/ neighbor_uri \notin DOMAIN vc
                   \/ new_cost < vc[neighbor_uri]
             THEN RelaxStrictBudget(rels, i + 1, cur, cost,
                        SetCost(vc, neighbor_uri, new_cost),
                        Append(q, <<neighbor_uri, new_cost>>))
             ELSE RelaxStrictBudget(rels, i + 1, cur, cost, vc, q)

\* Relax that enqueues a neighbor whose cost does not improve, unless the
\* queue already holds it.
RECURSIVE RelaxNotStrict(_, _, _, _, _, _)
RelaxNotStrict(rels, i, cur, cost, vc, q) ==
    IF i > Len(rels) THEN [vc |-> vc, q |-> q]
    ELSE LET r == rels[i]
             neighbor_uri == IF r.source_uri = cur THEN r.target_uri
                             ELSE r.source_uri
             new_cost == cost + r.weight
         IN  IF /\ new_cost <= max_cost
                /\ \/ neighbor_uri \notin DOMAIN vc
                   \/ /\ new_cost <= vc[neighbor_uri]
                      /\ \A k \in 1..Len(q) : q[k][1] # neighbor_uri
             THEN RelaxNotStrict(rels, i + 1, cur, cost,
                        SetCost(vc, neighbor_uri, new_cost),
                        Append(q, <<neighbor_uri, new_cost>>))
             ELSE RelaxNotStrict(rels, i + 1, cur, cost, vc, q)

\* The for loop of traverse over the relations of current_uri, from the
\* i-th on: visited_costs and the queue it leaves.
RECURSIVE Relax(_, _, _, _, _, _)
Relax(rels, i, cur, cost, vc, q) ==
    IF i > Len(rels) THEN [vc |-> vc, q |-> q]
    ELSE LET r == rels[i]
             neighbor_uri == IF r.source_uri = cur THEN r.target_uri
                             ELSE r.source_uri
             new_cost == cost + r.weight
         IN  IF /\ new_cost <= max_cost
                /\ \/ neighbor_uri \notin DOMAIN vc
                   \/ new_cost < vc[neighbor_uri]
             THEN Relax(rels, i + 1, cur, cost,
                        SetCost(vc, neighbor_uri, new_cost),
                        Append(q, <<neighbor_uri, new_cost>>))
             ELSE Relax(rels, i + 1, cur, cost, vc, q)

\* ---------------------------------------------------------------- actions

\* What the last operation was, on which URI, with which protected flag,
\* what became of it, the node it returned and how many keys it evicted.
Last(op, u, p, out, ret, n) ==
    [op |-> op, uri |-> u, prot |-> p, out |-> out, ret |-> ret, nev |-> n]

Now == Cache(nodes, protected_uris, file)

SetCache(c) ==
    /\ nodes' = c.nodes
    /\ protected_uris' = c.protected_uris
    /\ file' = c.file

RunOff == [on |-> FALSE, seq |-> <<>>]
RunEmpty == [on |-> TRUE, seq |-> <<>>]

\* ac.add(node, protected)
DoAdd(node, protected) ==
    /\ tpc = "idle"
    /\ LET a == Add(Now, node, protected)
       IN  /\ SetCache(a.c)
           /\ last' = Last("add", node.uri, protected, a.out, None, Len(a.evicted))
    /\ run' = IF run.on /\ ~protected /\ node.uri \notin Range(run.seq)
              THEN [run EXCEPT !.seq = Append(run.seq, node.uri)]
              ELSE RunOff
    /\ UNCHANGED <<max_size, hash_order, storeVars, travVars, otherVars>>

\* ac.get(uri, kg)
DoGet(u) ==
    /\ tpc = "idle"
    /\ LET g == Get(Now, u)
       IN  /\ SetCache(g.c)
           /\ last' = Last("get", u, FALSE, g.out, g.ret, Len(g.evicted))
    /\ run' = RunOff
    /\ UNCHANGED <<max_size, hash_order, storeVars, travVars, otherVars>>

\* ac.list_nodes(kg)
DoListNodes ==
    /\ tpc = "idle"
    /\ nodes' = ListNodesDict(nodes)
    /\ last' = Last("list_nodes", "none", FALSE,
                    IF nodes' = nodes THEN "same" ELSE "resolved", None, 0)
    /\ run' = RunOff
    /\ UNCHANGED <<max_size, protected_uris, file, hash_order, storeVars, travVars, otherVars>>

\* ac.clear()
DoClear ==
    /\ tpc = "idle"
    /\ SetCache(Clear(Now))
    /\ last' = Last("clear", "none", FALSE, "ok", None, Len(nodes) - Len(nodes'))
    /\ run' = RunOff
    /\ UNCHANGED <<max_size, hash_order, storeVars, travVars, otherVars>>

\* ac.force_clear()
DoForceClear ==
    /\ tpc = "idle"
    /\ SetCache(ForceClear(Now))
    /\ last' = Last("force_clear", "none", FALSE, "ok", None, Len(nodes))
    /\ run' = RunEmpty
    /\ UNCHANGED <<max_size, hash_order, storeVars, travVars, otherVars>>

\* ac.add_protected_uri(uri)
DoAddProtectedUri(u) ==
    /\ tpc = "idle"
    /\ SetCache(AddProtectedUri(Now, u))
    /\ last' = Last("add_protected_uri", u, TRUE, "ok", None, 0)
    /\ run' = RunOff
    /\ UNCHANGED <<max_size, hash_order, storeVars, travVars, otherVars>>

\* ac.remove_protected_uri(uri)
DoRemoveProtectedUri(u) ==
    /\ tpc = "idle"
    /\ SetCache(RemoveProtectedUri(Now, u))
    /\ last' = Last("remove_protected_uri", u, FALSE, "ok", None, 0)
    /\ run' = RunOff
    /\ UNCHANGED <<max_size, hash_order, storeVars, travVars, otherVars>>

\* ActiveContext.__init__ of a new process, or after reset_instance(): the
\* fields are set empty, then _load reads the state file.
Construct(ms, ho, f) ==
    LET l == Load(f)
    IN  /\ max_size' = ms
        /\ hash_order' = ho
        /\ nodes' = l.nodes
        /\ protected_uris' = l.protected_uris
        /\ file' = f
        /\ last' = Last("construct", "none", FALSE,
                        IF l.raised THEN "raised" ELSE "ok", None, 0)
        /\ run' = IF l.nodes = <<>> /\ l.protected_uris = {} /\ ~l.raised
                  THEN RunEmpty ELSE RunOff

\* The process ends and a new one constructs the cache from the state file.
Restart(ms, ho) ==
    /\ tpc = "idle"
    /\ Construct(ms, ho, file)
    /\ UNCHANGED <<storeVars, travVars, otherVars>>

\* traverse without the test of kg.get_node(start_uri): the while loop is
\* entered for a start_uri that is no node.
TraverseBeginUnchecked(su, mc) ==
    /\ tpc = "idle"
    /\ tpc' = "loop"
    /\ queue' = <<<<su, 0>>>>
    /\ visited_costs' = [u \in {su} |-> 0]
    /\ context_nodes' = <<>>
    /\ max_cost' = mc
    /\ start_uri' = su
    /\ last' = Last("traverse", su, FALSE, "begin", None, 0)
    /\ run' = RunOff
    /\ UNCHANGED <<cacheVars, storeVars, otherVars>>

\* ac.traverse(start_uri, kg, max_cost), up to its while loop.
TraverseBegin(su, mc) ==
    /\ tpc = "idle"
    /\ IF KgGetNode(su) = None
       THEN /\ last' = Last("traverse", su, FALSE, "returned", None, 0)
            /\ UNCHANGED travVars
       ELSE /\ tpc' = "loop"
            /\ queue' = <<<<su, 0>>>>
            /\ visited_costs' = [u \in {su} |-> 0]
            /\ context_nodes' = <<>>
            /\ max_cost' = mc
            /\ start_uri' = su
            /\ last' = Last("traverse", su, FALSE, "begin", None, 0)
    /\ run' = RunOff
    /\ UNCHANGED <<cacheVars, storeVars, otherVars>>

\* One iteration of the while loop of traverse.
TraverseStep ==
    /\ tpc = "loop"
    /\ queue # <<>>
    /\ LET current_uri == Head(queue)[1]
           current_cost == Head(queue)[2]
           relations == RelationsFrom(current_uri) \o RelationsTo(current_uri)
       IN  \E g \in {Get(Now, current_uri)},
              x \in {Relax(relations, 1, current_uri, current_cost,
                           visited_costs, Tail(queue))} :
           /\ SetCache(g.c)
           /\ context_nodes' =
                IF g.ret # None /\ g.ret \notin Range(context_nodes)
                THEN Append(context_nodes, g.ret) ELSE context_nodes
           /\ visited_costs' = x.vc
           /\ queue' = x.q
           /\ last' = Last("traverse", current_uri, FALSE, g.out, g.ret,
                           Len(g.evicted))
    /\ run' = RunOff
    /\ UNCHANGED <<max_size, hash_order, storeVars, tpc, max_cost, start_uri, otherVars>>

\* traverse returns context_nodes.
TraverseEnd ==
    /\ tpc = "loop"
    /\ queue = <<>>
    /\ tpc' = "idle"
    /\ context_nodes' = <<>>
    /\ visited_costs' = <<>>
    /\ max_cost' = 0
    /\ start_uri' = "none"
    /\ last' = Last("traverse", "none", FALSE, "returned", None, 0)
    /\ UNCHANGED <<cacheVars, storeVars, queue, run, otherVars>>

\* ---------------------------------------------------------- store actions

\* kg.add_node(node)
StoreAddNode(node) ==
    /\ kgNodes' = AddNodeRows(kgNodes, node)
    /\ last' = Last("add_node", node.uri, FALSE, "ok", None, 0)
    /\ UNCHANGED <<kgRelations, nextId, cacheVars, travVars, run, otherVars>>

\* kg.update_node(node)
StoreUpdateNode(node) ==
    /\ kgNodes' = UpdateNodeRows(kgNodes, node)
    /\ last' = Last("update_node", node.uri, FALSE, "ok", None, 0)
    /\ UNCHANGED <<kgRelations, nextId, cacheVars, travVars, run, otherVars>>

\* kg.delete_node(uri)
StoreDeleteNode(u) ==
    /\ kgNodes' = Without(kgNodes, u)
    /\ kgRelations' = IF u \in DOMAIN kgNodes THEN Cascade(kgRelations, u)
                      ELSE kgRelations
    /\ last' = Last("delete_node", u, FALSE, "ok", None, 0)
    /\ UNCHANGED <<nextId, cacheVars, travVars, run, otherVars>>

\* kg.add_relation(relation): AUTOINCREMENT spends an id on a conflict too.
StoreAddRelation(src, tgt, ty, w, meta) ==
    /\ nextId <= MaxId
    /\ kgRelations' = AddRelationRows(kgRelations, nextId, src, tgt, ty, w, meta)
    /\ nextId' = nextId + 1
    /\ last' = Last("add_relation", "none", FALSE,
                    IF kgRelations' = kgRelations THEN "ignored" ELSE "ok",
                    None, 0)
    /\ UNCHANGED <<kgNodes, cacheVars, travVars, run, otherVars>>

\* kg.delete_relation(relation_id)
StoreDeleteRelation(id) ==
    /\ kgRelations' = {r \in kgRelations : r.id # id}
    /\ last' = Last("delete_relation", "none", FALSE, "ok", None, 0)
    /\ UNCHANGED <<kgNodes, nextId, cacheVars, travVars, run, otherVars>>

\* kg.delete_relation_by_uris_and_type(source_uri, target_uri, relation_type)
StoreDeleteRelationByKey(src, tgt, ty) ==
    /\ kgRelations' = {r \in kgRelations : ~SameTriple(r, src, tgt, ty)}
    /\ last' = Last("delete_relation_by_uris_and_type", "none", FALSE, "ok", None, 0)
    /\ UNCHANGED <<kgNodes, nextId, cacheVars, travVars, run, otherVars>>

\* kg.move_node(old_uri, new_uri)
StoreMoveNode(old, new) ==
    /\ LET m == MoveNode(kgNodes, kgRelations, old, new)
       IN  /\ kgNodes' = m.nodes
           /\ kgRelations' = m.relations
           /\ last' = Last("move_node", old, FALSE, m.out, None, 0)
    /\ UNCHANGED <<nextId, cacheVars, travVars, run, otherVars>>

\* kg.clear_graph()
StoreClearGraph ==
    /\ kgNodes' = <<>>
    /\ kgRelations' = {}
    /\ last' = Last("clear_graph", "none", FALSE, "ok", None, 0)
    /\ UNCHANGED <<nextId, cacheVars, travVars, run, otherVars>>

\* ---------------------------------------------------------- specification

\* The state files a process may find: none, one that is not JSON, a JSON
\* scalar, a list of URIs (the old format), and objects whose "nodes" or
\* "protected_uris" is missing or is a number.
InitFiles ==
    {AbsentFile, [AbsentFile EXCEPT !.kind = "invalid"],
     [AbsentFile EXCEPT !.kind = "scalar"]}
    \cup {[AbsentFile EXCEPT !.kind = "list", !.nodesT = "list", !.nodes = ns] :
            ns \in DistinctSeqs(CoreUris)}
    \cup {[kind |-> "dict", nodesT |-> nt, nodes |-> <<>>, protT |-> pt,
           prot |-> IF pt = "list" THEN <<"u1">> ELSE <<>>] :
            nt \in {"missing", "number"}, pt \in {"missing", "list", "number"}}

\* The store the cache runs against: u1 and u2 are nodes, u3 is not, with
\* relations u1 -> u2 and u2 -> u3 of weight 1.
InitStore ==
    /\ kgNodes = [u \in {"u1", "u2"} |-> MkNode(u, 1)]
    /\ kgRelations =
         {[id |-> 1, source_uri |-> "u1", target_uri |-> "u2",
           relation_type |-> "contains", weight |-> 1, metadata |-> "{}"],
          [id |-> 2, source_uri |-> "u2", target_uri |-> "u3",
           relation_type |-> "contains", weight |-> 1, metadata |-> "{}"]}
    /\ nextId = 3

\* A second ActiveContext that holds nothing.
NoPeer == [nodes |-> <<>>, protected_uris |-> {}]

\* No transaction is open.
NoTxn == [pc |-> "none", old |-> "none", new |-> "none", nodes |-> <<>>,
          relations |-> {}]

InitOther ==
    /\ peer = NoPeer
    /\ txn = NoTxn

InitTraverse ==
    /\ tpc = "idle"
    /\ queue = <<>>
    /\ visited_costs = <<>>
    /\ context_nodes = <<>>
    /\ max_cost = 0
    /\ start_uri = "none"

Init ==
    /\ InitStore
    /\ InitTraverse
    /\ InitOther
    /\ \E ms \in 1..MaxSizeBound, ho \in HashOrders, f \in InitFiles :
         LET l == Load(f)
         IN  /\ max_size = ms
             /\ hash_order = ho
             /\ nodes = l.nodes
             /\ protected_uris = l.protected_uris
             /\ file = f
             /\ last = Last("construct", "none", FALSE,
                            IF l.raised THEN "raised" ELSE "ok", None, 0)
             /\ run = IF l.nodes = <<>> /\ l.protected_uris = {} /\ ~l.raised
                      THEN RunEmpty ELSE RunOff

\* The nodes callers pass to add: the store's u1 and u2, a u1 whose fields
\* differ from the store's, and a u3 that the store does not hold.
AddInputs ==
    {MkNode("u1", 1), MkNode("u1", 2), MkNode("u2", 1), MkNode("u3", 1)}

Next ==
    \/ \E node \in AddInputs, protected \in BOOLEAN : DoAdd(node, protected)
    \/ \E u \in CoreUris : DoGet(u)
    \/ DoListNodes
    \/ DoClear
    \/ DoForceClear
    \/ \E u \in CoreUris : DoAddProtectedUri(u)
    \/ \E u \in CoreUris : DoRemoveProtectedUri(u)
    \/ \E ms \in 1..MaxSizeBound, ho \in HashOrders : Restart(ms, ho)
    \/ \E u \in CoreUris, mc \in 0..MaxCost : TraverseBegin(u, mc)
    \/ TraverseStep
    \/ TraverseEnd

Spec == Init /\ [][Next]_vars

\* ------------------------------------------------------------ properties

Resident(u) == Has(nodes, u)

\* The keys an operation evicted, given the OrderedDict before and after.
Evicted(before, after) == Range(Keys(before)) \ Range(Keys(after))

\* C1: through add, get, list_nodes, clear and traverse, a URI that is
\* resident and protected stays resident.
C1_ProtectedStaysResident ==
    [][last'.op \in {"add", "get", "list_nodes", "clear", "traverse"} =>
         \A u \in URIS :
            (Resident(u) /\ u \in protected_uris) => Has(nodes', u)]_vars

\* C1's case: an add, get or traverse step evicted a key while another key,
\* protected, stayed resident.
C1_Witness ==
    /\ last.op \in {"add", "get", "traverse"}
    /\ last.nev > 0
    /\ \E u \in protected_uris : Resident(u) /\ u # last.uri

\* C2: after k > max_size adds of distinct non-protected nodes to an empty
\* cache with no protected URI, the keys are the last max_size URIs added, in
\* the order of their addition.
C2_KeepsNewestMaxSize ==
    (run.on /\ Len(run.seq) > max_size) =>
        Keys(nodes) = SubSeq(run.seq, Len(run.seq) - max_size + 1, Len(run.seq))

\* C2's case: more than max_size >= 2 distinct nodes were added.
C2_Witness ==
    /\ run.on
    /\ max_size >= 2
    /\ Len(run.seq) > max_size
    /\ last.op = "add"

\* C4: add(node, protected = True) of a node that was not resident leaves
\* node.uri resident and protected, whatever the cache held.
C4_ProtectedAddAdmitted ==
    (last.op = "add" /\ last.prot /\ last.out # "promoted") =>
        /\ last.out = "inserted"
        /\ Resident(last.uri)
        /\ last.uri \in protected_uris

\* C4's case: the protected add found max_size or more entries, all of them
\* protected, and the cache now holds more than max_size.
C4_Witness ==
    /\ last.op = "add" /\ last.prot /\ last.out = "inserted"
    /\ last.nev = 0
    /\ Len(nodes) > max_size
    /\ \A i \in 1..Len(nodes) : nodes[i].uri \in protected_uris

\* C5: an add(node, protected = False) that does not admit the node changes
\* nothing: not the OrderedDict, not the protected set, not the state file.
C5_DroppedAddNoEffect ==
    [][(last'.op = "add" /\ ~last'.prot /\ last'.out = "dropped") =>
          UNCHANGED <<nodes, protected_uris, file>>]_vars

\* C6: get of a URI that is resident as a placeholder and that the store
\* holds returns the store's node and leaves the slot resolved to it.
C6_GetResolvesPlaceholder ==
    (last.op = "get" /\ last.out = "promoted") =>
        /\ last.ret = KgGetNode(last.uri)
        /\ Value(nodes, last.uri) = last.ret

\* C7: a process constructed from the state file that _save wrote for the
\* cache holds the same keys in the same order, all as placeholders, and the
\* same protected set.
C7_SaveLoadRoundTrip ==
    [][(last'.op = "construct" /\ file = Save(Now).file) =>
          /\ last'.out = "ok"
          /\ Keys(nodes') = Keys(nodes)
          /\ \A i \in 1..Len(nodes') : nodes'[i].node = None
          /\ protected_uris' = protected_uris]_vars

\* C7's case: a restart loaded a saved object with two or more keys and two
\* or more protected URIs.
C7_Witness ==
    /\ last.op = "construct"
    /\ file.kind = "dict"
    /\ Len(nodes) >= 2
    /\ Keys(nodes) # SelectSeq(UriOrder, LAMBDA u : Resident(u))
    /\ Cardinality(protected_uris) >= 2

\* C8: clear removes exactly the entries whose URI is not protected; the
\* protected entries keep their order and values; the protected set is
\* unchanged.
C8_ClearKeepsProtected ==
    [][last'.op = "clear" =>
          /\ \A u \in URIS :
                Has(nodes', u) <=> (Resident(u) /\ u \in protected_uris)
          /\ \A u \in URIS :
                Has(nodes', u) => Value(nodes', u) = Value(nodes, u)
          /\ \A u, v \in URIS :
                (Has(nodes', u) /\ Has(nodes', v)) =>
                    (Pos(Keys(nodes'), u) < Pos(Keys(nodes'), v)
                        <=> Pos(Keys(nodes), u) < Pos(Keys(nodes), v))
          /\ protected_uris' = protected_uris]_vars

\* C8's case: clear removed an entry and kept two, one of them resolved.
C8_Witness ==
    /\ last.op = "clear"
    /\ last.nev > 0
    /\ Len(nodes) >= 2
    /\ \E i \in 1..Len(nodes) : nodes[i].node # None

\* The state file is not of a format _load expects.
Malformed(f) ==
    \/ f.kind \in {"invalid", "scalar"}
    \/ f.kind = "dict" /\ (f.nodesT = "number" \/ f.protT = "number")

\* C9: constructing the cache from a state file that is not of the expected
\* format never raises and leaves no key and no protected URI.
C9_CorruptFileStartsEmpty ==
    (last.op = "construct" /\ Malformed(file)) =>
        /\ last.out = "ok"
        /\ nodes = <<>>
        /\ protected_uris = {}

\* ------------------------------------------------- the store's specification

\* The nodes callers pass to add_node and update_node.
StoreNodeInputs ==
    {MkNode(u, 1) : u \in CoreUris}
    \cup {[uri |-> "u1", ver |-> 2, created_at |-> 2, updated_at |-> 2]}

\* The relations callers pass to add_relation, as <<source_uri, target_uri,
\* relation_type, weight, metadata>>: an edge, the same triple with another
\* weight and other metadata, a reverse edge of another type and a self-loop.
RelationInputs ==
    {<<"u1", "u2", "contains", 1, "{}">>,
     <<"u1", "u2", "contains", 2, "{\"k\": 1}">>,
     <<"u2", "u1", "references", 1, "{}">>,
     <<"u1", "u1", "contains", 1, "{}">>}

\* The renames callers ask of move_node, as <<old_uri, new_uri>>.
MoveInputs ==
    {<<"u1", "u3">>, <<"u3", "u1">>, <<"u1", "u2">>, <<"u2", "u2">>}

\* An empty store, and a cache constructed without a state file.
InitStoreSpec ==
    /\ kgNodes = <<>>
    /\ kgRelations = {}
    /\ nextId = 1
    /\ InitTraverse
    /\ InitOther
    /\ max_size = 1
    /\ hash_order = UriOrder
    /\ nodes = <<>>
    /\ protected_uris = {}
    /\ file = AbsentFile
    /\ last = Last("construct", "none", FALSE, "ok", None, 0)
    /\ run = RunEmpty

NextStore ==
    \/ \E node \in StoreNodeInputs : StoreAddNode(node)
    \/ \E node \in StoreNodeInputs : StoreUpdateNode(node)
    \/ \E u \in CoreUris : StoreDeleteNode(u)
    \/ \E r \in RelationInputs : StoreAddRelation(r[1], r[2], r[3], r[4], r[5])
    \/ \E id \in 1..MaxId : StoreDeleteRelation(id)
    \/ \E r \in RelationInputs : StoreDeleteRelationByKey(r[1], r[2], r[3])
    \/ \E m \in MoveInputs : StoreMoveNode(m[1], m[2])
    \/ StoreClearGraph

SpecStore == InitStoreSpec /\ [][NextStore]_vars

\* C10: delete_node(uri) removes the node and every relation with uri as
\* source or as target, and the relation count drops by their number.
C10_DeleteNodeCascades ==
    [][last'.op = "delete_node" =>
          LET u == last'.uri
              gone == {r \in kgRelations : r.source_uri = u \/ r.target_uri = u}
          IN  /\ u \notin DOMAIN kgNodes'
              /\ kgRelations' = kgRelations \ gone
              /\ Cardinality(kgRelations') =
                    Cardinality(kgRelations) - Cardinality(gone)]_vars

\* C11: in every state of the store, each relation's source_uri and
\* target_uri are URIs of rows of nodes.
C11_NoDanglingEdges ==
    \A r \in kgRelations :
        r.source_uri \in DOMAIN kgNodes /\ r.target_uri \in DOMAIN kgNodes

\* The store driven by the operations that make, rename and delete nodes
\* and relations, each node with the fields of MkNode.
NextLinks ==
    \/ \E u \in CoreUris : StoreAddNode(MkNode(u, 1))
    \/ \E u \in CoreUris : StoreDeleteNode(u)
    \/ \E r \in RelationInputs : StoreAddRelation(r[1], r[2], r[3], r[4], r[5])
    \/ \E id \in 1..MaxId : StoreDeleteRelation(id)
    \/ \E m \in MoveInputs : StoreMoveNode(m[1], m[2])

SpecLinks == InitStoreSpec /\ [][NextLinks]_vars

\* C12: move_node(old_uri, new_uri) with new_uri a row of nodes, old_uri
\* itself included, raises the ValueError and changes no node and no relation.
C12_RenameToExistingFails ==
    [][last'.op = "move_node" =>
          \A m \in MoveInputs :
             (StoreMoveNode(m[1], m[2]) /\ m[2] \in DOMAIN kgNodes) =>
                 /\ last'.out = "exists"
                 /\ UNCHANGED <<kgNodes, kgRelations>>]_vars

\* C12's case: a rename to an existing URI was refused in a store that holds
\* two nodes or more and a relation.
C12_Witness ==
    /\ last.op = "move_node"
    /\ last.out = "exists"
    /\ Cardinality(DOMAIN kgNodes) >= 2
    /\ kgRelations # {}

\* A relation row with old replaced by new at both ends.
Renamed(r, old, new) ==
    [r EXCEPT !.source_uri = IF @ = old THEN new ELSE @,
              !.target_uri = IF @ = old THEN new ELSE @]

\* C13: move_node(old_uri, new_uri) with old_uri a node and new_uri not one
\* leaves the node, its fields unchanged, under new_uri only, replaces
\* old_uri by new_uri at every relation end, keeps the number of relations,
\* and leaves no relation that names old_uri.
C13_RenameRewritesEndpoints ==
    [][\A m \in MoveInputs :
          (/\ StoreMoveNode(m[1], m[2])
           /\ m[1] \in DOMAIN kgNodes
           /\ m[2] \notin DOMAIN kgNodes) =>
              /\ DOMAIN kgNodes' = (DOMAIN kgNodes \ {m[1]}) \cup {m[2]}
              /\ kgNodes'[m[2]] = [kgNodes[m[1]] EXCEPT !.uri = m[2]]
              /\ kgRelations' = {Renamed(r, m[1], m[2]) : r \in kgRelations}
              /\ Cardinality(kgRelations') = Cardinality(kgRelations)
              /\ \A r \in kgRelations' :
                    r.source_uri # m[1] /\ r.target_uri # m[1]]_vars

\* C14: add_relation of a triple that is already stored leaves the rows of
\* relations, their number, weights and metadata, as they were.
C14_DuplicateRelationIgnored ==
    [][last'.op = "add_relation" =>
          \A r \in RelationInputs :
             (/\ StoreAddRelation(r[1], r[2], r[3], r[4], r[5])
              /\ \E x \in kgRelations : SameTriple(x, r[1], r[2], r[3])) =>
                 kgRelations' = kgRelations]_vars

\* C14's case: an add_relation met its triple in the table and spent an id.
C14_Witness ==
    /\ last.op = "add_relation"
    /\ last.out = "ignored"
    /\ \E x \in kgRelations : x.id + 1 < nextId

\* C15: after add_node(n), get_node(n.uri) returns n's uri, n's node_type,
\* name, content and metadata, and n's created_at.
C15_UpsertThenGet ==
    [][\A n \in StoreNodeInputs :
          StoreAddNode(n) =>
              LET got == KgGetNode(n.uri)'
              IN  /\ got.uri = n.uri
                  /\ got.ver = n.ver
                  /\ got.created_at = n.created_at]_vars

\* --------------------------------------------- the eviction specification

\* An empty cache of capacity up to MaxSizeBound + 1 over the four URIs,
\* driven by add, remove_protected_uri, clear and force_clear alone.
InitEvict ==
    /\ InitStore
    /\ InitTraverse
    /\ InitOther
    /\ max_size \in 1..(MaxSizeBound + 1)
    /\ hash_order = UriOrder
    /\ nodes = <<>>
    /\ protected_uris = {}
    /\ file = AbsentFile
    /\ last = Last("construct", "none", FALSE, "ok", None, 0)
    /\ run = RunEmpty

NextEvict ==
    \/ \E u \in URIS, protected \in BOOLEAN : DoAdd(MkNode(u, 1), protected)
    \/ \E u \in URIS : DoRemoveProtectedUri(u)
    \/ DoClear
    \/ DoForceClear

SpecEvict == InitEvict /\ [][NextEvict]_vars

\* C3: when add is called with a URI that is not resident and the cache
\* holds max_size entries or more, every key it evicts is non-protected and
\* older than every non-protected key that stays, and it evicts until the
\* count is below max_size or no non-protected key is left, and no further.
C3_EvictsOldestUnprotected ==
    [][(last'.op = "add" /\ ~Resident(last'.uri) /\ Len(nodes) >= max_size) =>
          LET old == Keys(nodes)
              E == Evicted(nodes, nodes')
              stay == Range(old) \ E
              left == Len(nodes) - Cardinality(E)
          IN  /\ \A e \in E : e \notin protected_uris'
              /\ \A e \in E, r \in stay :
                    r \notin protected_uris' => Pos(old, e) < Pos(old, r)
              /\ left < max_size \/ \A r \in stay : r \in protected_uris'
              /\ E # {} => left >= max_size - 1]_vars

\* C3's case: the add evicted a key, and a protected key and a
\* non-protected key, both resident before it, stayed.
C3_Witness ==
    /\ last.op = "add"
    /\ last.nev > 0
    /\ \E u \in protected_uris : Resident(u) /\ u # last.uri
    /\ \E r \in URIS \ protected_uris : Resident(r) /\ r # last.uri

\* ------------------------------------------- the traversal specification

\* A row of relations.
Rel(id, src, tgt, w) ==
    [id |-> id, source_uri |-> src, target_uri |-> tgt,
     relation_type |-> "contains", weight |-> w, metadata |-> "{}"]

\* The row of an edge, or no row when w is -1.
OptRel(id, src, tgt, w) == IF w >= 0 THEN {Rel(id, src, tgt, w)} ELSE {}

\* The relations of the graphs over u1 -> u2, u2 -> u3 and u3 -> u1, each
\* absent (-1) or of a weight in W, with or without a self-loop of u1 of
\* weight 0.
GraphsOver(W) ==
    {OptRel(1, "u1", "u2", w[1]) \cup OptRel(2, "u2", "u3", w[2])
        \cup OptRel(3, "u3", "u1", w[3])
        \cup (IF loop THEN {Rel(4, "u1", "u1", 0)} ELSE {}) :
        w \in [1..3 -> W], loop \in BOOLEAN}

\* The graphs traversed: every weight in 0..MaxCost.
TraverseRelations == GraphsOver(-1..MaxCost)

\* The caches a traversal starts from: empty, holding a protected u3, and
\* holding a placeholder of u1 after a restart.
TraverseCaches ==
    {[nodes |-> <<>>, protected_uris |-> {}],
     [nodes |-> <<Entry("u3", MkNode("u3", 1))>>, protected_uris |-> {"u3"}],
     [nodes |-> <<Entry("u1", None)>>, protected_uris |-> {}]}

\* A store whose nodes are u1 and u2, with u3 or without, under one of the
\* graphs, and a cache of capacity max_size saved to its state file.
InitTraverseSpec ==
    /\ \E withU3 \in BOOLEAN :
         kgNodes = [u \in (IF withU3 THEN CoreUris ELSE {"u1", "u2"}) |->
                       MkNode(u, 1)]
    /\ kgRelations \in TraverseRelations
    /\ nextId = 5
    /\ InitTraverse
    /\ InitOther
    /\ max_size \in 1..MaxSizeBound
    /\ hash_order = UriOrder
    /\ \E c \in TraverseCaches :
         /\ nodes = c.nodes
         /\ protected_uris = c.protected_uris
         /\ file = JsonObject(Keys(c.nodes), ListOfSet(c.protected_uris))
    /\ last = Last("construct", "none", FALSE, "ok", None, 0)
    /\ run = RunOff

NextTraverse ==
    \/ \E u \in CoreUris, mc \in 0..MaxCost : TraverseBegin(u, mc)
    \/ TraverseStep
    \/ TraverseEnd

SpecTraverse == InitTraverseSpec /\ [][NextTraverse]_vars

\* The graphs of the termination check: edges absent, free, or of the
\* largest weight, so that cycles of weight 0 and costs that improve occur.
InitTraverseLive ==
    /\ kgNodes = [u \in CoreUris |-> MkNode(u, 1)]
    /\ kgRelations \in GraphsOver({-1, 0, MaxCost})
    /\ nextId = 5
    /\ InitTraverse
    /\ InitOther
    /\ max_size = MaxSizeBound
    /\ hash_order = UriOrder
    /\ nodes = <<>>
    /\ protected_uris = {}
    /\ file = AbsentFile
    /\ last = Last("construct", "none", FALSE, "ok", None, 0)
    /\ run = RunOff

\* The while loop of traverse runs on: a step that is possible is taken.
SpecTraverseLive ==
    InitTraverseLive /\ [][NextTraverse]_vars /\ WF_vars(TraverseStep)

\* list(n.uri for n in ns)
Uris(ns) == [i \in 1..Len(ns) |-> ns[i].uri]

\* traverse is about to return context_nodes.
Returning == tpc = "loop" /\ queue = <<>>

\* C16: traverse(start_uri, kg, max_cost = 0) of a start node that exists
\* returns the start node and nothing else.
C16_ZeroBudgetReturnsStart ==
    (Returning /\ max_cost = 0) => Uris(context_nodes) = <<start_uri>>

\* The relations that join start_uri to another URI.
AtStart ==
    {r \in kgRelations :
        /\ r.source_uri = start_uri \/ r.target_uri = start_uri
        /\ r.source_uri # r.target_uri}

\* C16, amended: when every relation that joins start_uri to another URI has
\* a weight above 0, traverse(start_uri, kg, max_cost = 0) of a start node
\* that exists returns the start node and nothing else.
C16_ZeroBudgetPositiveWeights ==
    (Returning /\ max_cost = 0 /\ \A r \in AtStart : r.weight > 0) =>
        Uris(context_nodes) = <<start_uri>>

\* C16's case: a traversal with max_cost 0 returns the start node alone,
\* leaving out a neighbor that is a node.
C16_Witness ==
    /\ Returning
    /\ max_cost = 0
    /\ Uris(context_nodes) = <<start_uri>>
    /\ \E r \in AtStart :
         r.source_uri \in DOMAIN kgNodes /\ r.target_uri \in DOMAIN kgNodes

\* The <<uri, cost>> pairs of the paths from the pairs of S, along relations
\* taken in either direction, whose cost is at most max_cost.
RECURSIVE PathCosts(_)
PathCosts(S) ==
    LET Step(p) ==
            {<<IF r.source_uri = p[1] THEN r.target_uri ELSE r.source_uri,
               p[2] + r.weight>> :
               r \in {e \in kgRelations : e.source_uri = p[1]
                                           \/ e.target_uri = p[1]}}
        T == S \cup UNION {Step(p) : p \in S}
        U == {p \in T : p[2] <= max_cost}
    IN  IF U = S THEN S ELSE PathCosts(U)

\* The minimum cost of a path from start_uri to u is at most max_cost.
WithinBudget(u) == \E p \in PathCosts({<<start_uri, 0>>}) : p[1] = u

\* C17: every node in context_nodes, every URI that traverse passed to get
\* and every URI in its queue has a path from start_uri of cost at most
\* max_cost.
C17_VisitsWithinBudget ==
    tpc = "loop" =>
        /\ \A i \in 1..Len(context_nodes) : WithinBudget(context_nodes[i].uri)
        /\ \A i \in 1..Len(queue) : WithinBudget(queue[i][1])
        /\ last.out \notin {"begin", "returned"} => WithinBudget(last.uri)

\* C17's case: the traversal returns without a node that the graph connects
\* to start_uri, at a cost above max_cost only, and with a node it reached.
C17_Witness ==
    /\ Returning
    /\ Len(context_nodes) >= 2
    /\ \E u \in DOMAIN kgNodes :
         /\ u \notin Range(Uris(context_nodes))
         /\ \E r \in kgRelations : r.source_uri = u \/ r.target_uri = u

\* Nodes u1, u2 and u3 with relations u1 -> u2 and u2 -> u3 of weight w.
Chain(w) ==
    /\ DOMAIN kgNodes = CoreUris
    /\ kgRelations = {Rel(1, "u1", "u2", w), Rel(2, "u2", "u3", w)}

\* C18: over the chain of weight w, traverse from u1 returns [u1, u2] when
\* w <= max_cost < 2w and [u1, u2, u3] when max_cost >= 2w.
C18_ChainScenario ==
    \A w \in 0..MaxCost :
        (Returning /\ Chain(w) /\ start_uri = "u1") =>
            /\ (w <= max_cost /\ max_cost < 2 * w) =>
                   Uris(context_nodes) = <<"u1", "u2">>
            /\ max_cost >= 2 * w =>
                   Uris(context_nodes) = <<"u1", "u2", "u3">>

\* C18's case: the chain of weight 1 traversed with max_cost 1, u3 left out.
C18_Witness ==
    /\ Returning
    /\ Chain(1)
    /\ start_uri = "u1"
    /\ max_cost = 1
    /\ Uris(context_nodes) = <<"u1", "u2">>

\* C19: the while loop of traverse ends: its queue becomes empty.
C19_TraverseTerminates == (tpc = "loop") ~> (queue = <<>>)

\* C19's case: a traversal over the cycle u1 -> u2 -> u3 -> u1 of weight 0,
\* with the self-loop, is about to return.
C19_Witness ==
    /\ Returning
    /\ kgRelations = {Rel(1, "u1", "u2", 0), Rel(2, "u2", "u3", 0),
                      Rel(3, "u3", "u1", 0), Rel(4, "u1", "u1", 0)}
    /\ Len(context_nodes) = 3

\* C20: after a step of traverse that put a node in context_nodes, the
\* node's URI is a key of the cache, and the protected set is as before.
C20_VisitedBecomesResident ==
    [][TraverseStep =>
          /\ last'.ret # None => Has(nodes', last'.uri)
          /\ protected_uris' = protected_uris]_vars

\* The number of entries of the cache whose URI is protected.
ProtectedEntries ==
    Cardinality({u \in Range(Keys(nodes)) : u \in protected_uris})

\* C20, amended: after a step of traverse that put a node in context_nodes,
\* the node's URI is a key of the cache unless the cache held max_size or
\* more protected entries and not this URI; the protected set is as before.
C20_VisitedResidentUnlessPinned ==
    [][TraverseStep =>
          /\ (last'.ret # None
                 /\ (ProtectedEntries < max_size \/ Has(nodes, last'.uri))) =>
                Has(nodes', last'.uri)
          /\ protected_uris' = protected_uris]_vars

\* C20's case: a step of traverse inserted the node it resolved and evicted
\* another entry, next to a protected entry that stayed.
C20_Witness ==
    /\ last.op = "traverse"
    /\ last.out = "inserted"
    /\ last.nev > 0
    /\ Has(nodes, last.uri)
    /\ \E u \in protected_uris : Resident(u) /\ u # last.uri

\* ---------------------------------------------------- the concept tools

\* The URIs under concept://; u3 is the URI of a directory.
ConceptUris == {"u1", "u2"}

\* A node's node_type, which the model reads off the scheme of its URI.
NodeTypeOf(node) == IF node.uri \in ConceptUris THEN "concept" ELSE "directory"

\* A markdown link "[label](scheme://u)"; the text around the links of a
\* content is left out.
Link(label, scheme, u) == [label |-> label, scheme |-> scheme, uri |-> u]

\* The content of a concept of each version: version 1 is
\* "[](concept://u1) [y](file://u1) [y](concept://u2)", version 2 is
\* "[y](file://u1)".
ContentOf ==
    [v \in Versions |->
        IF v = 1
        THEN <<Link("", "concept", "u1"), Link("y", "file", "u1"),
               Link("y", "concept", "u2")>>
        ELSE <<Link("y", "file", "u1")>>]

\* _extract_concept_links: the URIs of the links that the pattern
\* \[([^\]]+)\]\((concept://[^)]+)\) matches, in the order of the text.
ExtractConceptLinks(content) ==
    LET found == SelectSeq(content,
                           LAMBDA l : l.label # "" /\ l.scheme = "concept")
    IN  [i \in 1..Len(found) |-> found[i].uri]

\* The weight of a references relation made from a link, in tenths.
ReferenceWeight == 3

\* The metadata of a references relation made from a link.
MarkdownMeta ==
    "{\"auto_generated\": true, \"link_type\": \"markdown_reference\"}"

\* metadata.get("auto_generated") and
\* metadata.get("link_type") == "markdown_reference"
IsMarkdownReference(meta) == meta = MarkdownMeta

\* _create_concept_links giving each relation the number of its row as its
\* weight.
CreateConceptLinksNumbered(rows, rels, id, source_uri, linked_uris, i) ==
    [relations |->
        rels \cup {[id |-> id + k - i, source_uri |-> source_uri,
                    target_uri |-> linked_uris[k],
                    relation_type |-> "references",
                    weight |-> id + k - i, metadata |-> MarkdownMeta] :
                   k \in {j \in i..Len(linked_uris) :
                              /\ linked_uris[j] \in DOMAIN rows
                              /\ ~\E r \in rels :
                                     SameTriple(r, source_uri, linked_uris[j],
                                                "references")}},
     nextId |-> id + Len(linked_uris) - i + 1]

\* _create_concept_links without the test kg.get_node(target_uri).
CreateConceptLinksForward(rows, rels, id, source_uri, linked_uris, i) ==
    [relations |->
        rels \cup {[id |-> id + k - i, source_uri |-> source_uri,
                    target_uri |-> linked_uris[k],
                    relation_type |-> "references",
                    weight |-> ReferenceWeight, metadata |-> MarkdownMeta] :
                   k \in {j \in i..Len(linked_uris) :
                              ~\E r \in rels :
                                  SameTriple(r, source_uri, linked_uris[j],
                                             "references")}},
     nextId |-> id + Len(linked_uris) - i + 1]

\* _create_concept_links, from the i-th linked URI on: the relations and the
\* AUTOINCREMENT counter it leaves.
RECURSIVE CreateConceptLinks(_, _, _, _, _, _)
CreateConceptLinks(rows, rels, id, source_uri, linked_uris, i) ==
    IF i > Len(linked_uris) THEN [relations |-> rels, nextId |-> id]
    ELSE IF linked_uris[i] \in DOMAIN rows
    THEN CreateConceptLinks(rows,
             AddRelationRows(rels, id, source_uri, linked_uris[i],
                             "references", ReferenceWeight, MarkdownMeta),
             id + 1, source_uri, linked_uris, i + 1)
    ELSE CreateConceptLinks(rows, rels, id, source_uri, linked_uris, i + 1)

\* update_concept deleting every references relation from u, marked or not.
DeleteLinksUnmarked(rels, u) ==
    {r \in rels : ~(r.source_uri = u /\ r.relation_type = "references")}

\* update_concept that leaves the relations made from the old content.
DeleteLinksNone(rels, u) == rels

\* The first loop of update_concept: the relations left when every
\* references relation from u that was made from a link is deleted.
DeleteLinks(rels, u) ==
    {r \in rels : ~(/\ r.source_uri = u
                    /\ r.relation_type = "references"
                    /\ IsMarkdownReference(r.metadata))}

\* No row of nodes or of relations names u.
Fresh(u) ==
    /\ u \notin DOMAIN kgNodes
    /\ \A r \in kgRelations : r.source_uri # u /\ r.target_uri # u

\* add_concept(kg, uri, name, content), name and content of version v, while
\* the ids it spends are at most MaxId.  The outcome recorded is "created"
\* when no row named uri before the call.
AddConcept(u, v) ==
    /\ tpc = "idle"
    /\ LET node == MkNode(u, v)
           rows == AddNodeRows(kgNodes, node)
           x == CreateConceptLinks(rows, kgRelations, nextId, u,
                                   ExtractConceptLinks(ContentOf[v]), 1)
           a == Add(Now, node, FALSE)
       IN  /\ x.nextId <= MaxId + 1
           /\ kgNodes' = rows
           /\ kgRelations' = x.relations
           /\ nextId' = x.nextId
           /\ SetCache(a.c)
           /\ last' = Last("add_concept", u, FALSE,
                           IF Fresh(u) THEN "created" ELSE "replaced",
                           node, Len(a.evicted))
    /\ run' = RunOff
    /\ UNCHANGED <<max_size, hash_order, travVars, otherVars>>

\* update_concept(kg, uri, name, content), name and content of version v.
\* The count recorded is of the relations it deleted.
UpdateConcept(u, v) ==
    /\ tpc = "idle"
    /\ IF KgGetNode(u) = None
       THEN /\ last' = Last("update_concept", u, FALSE, "absent", None, 0)
            /\ UNCHANGED <<storeVars, nodes, protected_uris, file>>
       ELSE LET node == [KgGetNode(u) EXCEPT !.ver = v]
                rows == UpdateNodeRows(kgNodes, node)
                x == CreateConceptLinks(rows, DeleteLinks(kgRelations, u),
                                        nextId, u,
                                        ExtractConceptLinks(ContentOf[v]), 1)
                a == Add(Now, node, FALSE)
            IN  /\ x.nextId <= MaxId + 1
                /\ kgNodes' = rows
                /\ kgRelations' = x.relations
                /\ nextId' = x.nextId
                /\ SetCache(a.c)
                /\ last' = Last("update_concept", u, FALSE, a.out, node,
                                Cardinality(kgRelations \ DeleteLinks(kgRelations, u)))
    /\ run' = RunOff
    /\ UNCHANGED <<max_size, hash_order, travVars, otherVars>>

\* delete_concept(kg, uri)
DeleteConcept(u) ==
    /\ tpc = "idle"
    /\ IF KgGetNode(u) # None /\ NodeTypeOf(KgGetNode(u)) = "concept"
       THEN /\ kgNodes' = Without(kgNodes, u)
            /\ kgRelations' = Cascade(kgRelations, u)
            /\ last' = Last("delete_concept", u, FALSE, "true", None, 0)
       ELSE /\ last' = Last("delete_concept", u, FALSE, "false", None, 0)
            /\ UNCHANGED <<kgNodes, kgRelations>>
    /\ UNCHANGED <<nextId, cacheVars, travVars, run, otherVars>>

\* move_concept(kg, old_uri, new_uri): "true", "false", or "integrity" when
\* move_node raises sqlite3.IntegrityError, which move_concept lets through.
MoveConcept(old, new) ==
    /\ tpc = "idle"
    /\ IF KgGetNode(old) # None /\ NodeTypeOf(KgGetNode(old)) = "concept"
       THEN LET m == MoveNode(kgNodes, kgRelations, old, new)
            IN  /\ kgNodes' = m.nodes
                /\ kgRelations' = m.relations
                /\ last' = Last("move_concept", old, FALSE,
                                CASE m.out = "ok" -> "true"
                                  [] m.out = "exists" -> "false"
                                  [] OTHER -> "integrity",
                                None, 0)
       ELSE /\ last' = Last("move_concept", old, FALSE, "false", None, 0)
            /\ UNCHANGED <<kgNodes, kgRelations>>
    /\ UNCHANGED <<nextId, cacheVars, travVars, run, otherVars>>

\* The relations that callers of the concept tools add by hand: a
\* references relation without the markers of a link, and a contains
\* relation that carries them.
ConceptRelationInputs ==
    {<<"u2", "u1", "references", 1, "{}">>,
     <<"u1", "u2", "contains", 1, MarkdownMeta>>}

\* The renames asked of move_concept, as <<old_uri, new_uri>>.
ConceptMoves == {<<"u1", "u2">>, <<"u3", "u1">>}

\* An empty store and an empty cache of capacity 1.
InitConcepts ==
    /\ kgNodes = <<>>
    /\ kgRelations = {}
    /\ nextId = 1
    /\ InitTraverse
    /\ InitOther
    /\ max_size = 1
    /\ hash_order = UriOrder
    /\ nodes = <<>>
    /\ protected_uris = {}
    /\ file = AbsentFile
    /\ last = Last("construct", "none", FALSE, "ok", None, 0)
    /\ run = RunOff

NextConcepts ==
    \/ \E u \in ConceptUris, v \in Versions : AddConcept(u, v)
    \/ \E u \in ConceptUris, v \in Versions : UpdateConcept(u, v)
    \/ \E u \in CoreUris : DeleteConcept(u)
    \/ \E m \in ConceptMoves : MoveConcept(m[1], m[2])
    \/ StoreAddNode(MkNode("u3", 1))
    \/ \E r \in ConceptRelationInputs :
          StoreAddRelation(r[1], r[2], r[3], r[4], r[5])
    \/ DoListNodes

SpecConcepts == InitConcepts /\ [][NextConcepts]_vars

\* The references relations whose source is u.
ReferencesFrom(rels, u) ==
    {r \in rels : r.source_uri = u /\ r.relation_type = "references"}

\* C21: add_concept of a URI that no row names, with content that has one
\* link to a node y, leaves exactly one references relation from the URI to
\* y; an update_concept that follows it, with content that has no link,
\* leaves no references relation whose source is the URI.
C21_LinkMadeThenRemoved ==
    [][/\ last'.op = "add_concept" =>
            \A y \in ConceptUris :
               (/\ AddConcept(last'.uri, last'.ret.ver)
                /\ Fresh(last'.uri)
                /\ ExtractConceptLinks(ContentOf[last'.ret.ver]) = <<y>>
                /\ y \in DOMAIN kgNodes) =>
                   /\ Cardinality({r \in ReferencesFrom(kgRelations', last'.uri) :
                                     r.target_uri = y}) = 1
                   /\ Cardinality(ReferencesFrom(kgRelations', last'.uri)) = 1
       /\ (last.op = "add_concept" /\ last'.op = "update_concept") =>
            \A v \in Versions, y \in ConceptUris :
               (/\ UpdateConcept(last.uri, v)
                /\ last.out = "created"
                /\ ExtractConceptLinks(ContentOf[last.ret.ver]) = <<y>>
                /\ y \in DOMAIN kgNodes
                /\ ExtractConceptLinks(ContentOf[v]) = <<>>) =>
                   ReferencesFrom(kgRelations', last.uri) = {}]_vars

\* C21's case: the update of u1 deleted the relation made from the link of
\* u1 to the node u2 and left no references relation from u1; the relation
\* added by hand stays.
C21_Witness ==
    /\ last.op = "update_concept"
    /\ last.uri = "u1"
    /\ last.nev = 1
    /\ ExtractConceptLinks(ContentOf[last.ret.ver]) = <<>>
    /\ "u2" \in DOMAIN kgNodes
    /\ ReferencesFrom(kgRelations, "u1") = {}
    /\ \E r \in kgRelations : r.source_uri = "u2"

\* C24: update_concept of a concept whose entry in the cache is resolved
\* leaves the cache holding the node of the new name and content, which get
\* and list_nodes return.
C24_UpdateRefreshesCache ==
    [][last'.op = "update_concept" =>
          \A v \in Versions :
             (/\ UpdateConcept(last'.uri, v)
              /\ last'.uri \in DOMAIN kgNodes
              /\ Has(nodes, last'.uri)
              /\ Value(nodes, last'.uri) # None) =>
                 /\ Value(nodes', last'.uri).ver = v
                 /\ Get(Cache(nodes', protected_uris', file'),
                        last'.uri).ret.ver = v
                 /\ \E i \in 1..Len(ListNodesResult(nodes')) :
                       /\ ListNodesResult(nodes')[i].uri = last'.uri
                       /\ ListNodesResult(nodes')[i].ver = v]_vars

\* C29: every node that list_nodes(kg) returns is a row of nodes under the
\* node's URI when list_nodes is called.
C29_ListedNodesExist ==
    last.op = "list_nodes" =>
        \A i \in 1..Len(nodes) :
            nodes[i].node # None => nodes[i].node.uri \in DOMAIN kgNodes

\* ------------------------------------------------------- the root nodes

\* f"concept://{workspace.id}/project" of the workspace "ws".
MainProjectUri == "concept://ws/project"

\* sub_concepts, the keys of project_details.
SubConcepts ==
    <<"concept://ws/project/structure", "concept://ws/project/goals",
      "concept://ws/project/architecture", "concept://ws/project/configuration">>

\* root_uris
RootUris == <<"dir://.", MainProjectUri>> \o SubConcepts

\* key_directories
KeyDirectories == <<"dir://src", "dir://design_docs">>

\* concept_directory_links, as <<concept_uri, dir_uri>> in the order of its
\* two loops.
ConceptDirectoryLinks ==
    <<<<SubConcepts[1], "dir://.">>, <<SubConcepts[1], "dir://src">>,
      <<SubConcepts[1], "dir://design_docs">>,
      <<SubConcepts[2], "dir://design_docs">>,
      <<SubConcepts[3], "dir://src">>, <<SubConcepts[3], "dir://design_docs">>,
      <<SubConcepts[4], "dir://.">>>>

\* The weights of the relations between the project concepts (0.1) and
\* between a concept and a directory (0.2), in tenths.
ProjectLinkWeight == 1
DirectoryLinkWeight == 2

\* metadata={"auto_generated": True}
AutoMeta == "{\"auto_generated\": true}"

\* _ensure_project_details_exist, up to its last line: the rows of nodes
\* with the sub-concepts and the main project concept added where missing.
EnsureProjectDetailsExist(rows) ==
    [u \in DOMAIN rows \cup Range(SubConcepts) \cup {MainProjectUri} |->
        IF u \in DOMAIN rows THEN rows[u] ELSE MkNode(u, 1)]

\* The concatenation of the sequences of a sequence.
RECURSIVE Flatten(_)
Flatten(ss) == IF ss = <<>> THEN <<>> ELSE Head(ss) \o Flatten(Tail(ss))

\* A relation a -> b of type t1 and its reverse b -> a of type t2, as
\* <<source_uri, target_uri, relation_type, weight>>.
BothWays(a, b, t1, t2, w) == <<<<a, b, t1, w>>, <<b, a, t2, w>>>>

\* The relations that _create_project_concept_links passes to add_relation,
\* in the order of its calls, when the rows of nodes are `rows`.
ProjectRelations(rows) ==
    Flatten([i \in 1..Len(SubConcepts) |->
                BothWays(MainProjectUri, SubConcepts[i], "contains", "part_of",
                         ProjectLinkWeight)])
    \o Flatten([i \in 1..Len(ConceptDirectoryLinks) |->
                  IF ConceptDirectoryLinks[i][2] \in DOMAIN rows
                  THEN BothWays(ConceptDirectoryLinks[i][1],
                                ConceptDirectoryLinks[i][2],
                                "describes", "described_by", DirectoryLinkWeight)
                  ELSE <<>>])
    \o (IF "dir://." \in DOMAIN rows
        THEN BothWays(MainProjectUri, "dir://.", "located_in",
                      "contains_project", ProjectLinkWeight)
        ELSE <<>>)

\* kg.add_relation of each of `calls` from the i-th on: the relations and
\* the AUTOINCREMENT counter it leaves.
RECURSIVE AddRelationsAll(_, _, _, _)
AddRelationsAll(rels, id, calls, i) ==
    IF i > Len(calls) THEN [relations |-> rels, nextId |-> id]
    ELSE AddRelationsAll(
             AddRelationRows(rels, id, calls[i][1], calls[i][2], calls[i][3],
                             calls[i][4], AutoMeta),
             id + 1, calls, i + 1)

\* for uri in uris: node = kg.get_node(uri); if node: self.add(node,
\* protected=True), from the i-th URI on.
RECURSIVE AddAllProtected(_, _, _, _)
AddAllProtected(c, rows, uris, i) ==
    IF i > Len(uris) THEN c
    ELSE AddAllProtected(IF uris[i] \in DOMAIN rows
                         THEN Add(c, rows[uris[i]], TRUE).c ELSE c,
                         rows, uris, i + 1)

\* The most add_relation calls that one initialize_with_root_nodes makes.
MaxRootCalls == 2 * (Len(SubConcepts) + Len(ConceptDirectoryLinks) + 1)

\* ac.initialize_with_root_nodes(kg, workspace), while the ids spent are at
\* most MaxId, and once more right after such a call.  The count recorded is
\* of the entries that force_clear removed.
InitializeWithRootNodes ==
    /\ tpc = "idle"
    /\ \/ nextId <= MaxId
       \/ /\ last.op = "initialize_with_root_nodes"
          /\ nextId <= MaxId + MaxRootCalls
    /\ LET rows == EnsureProjectDetailsExist(kgNodes)
           x == AddRelationsAll(kgRelations, nextId, ProjectRelations(rows), 1)
           c == AddAllProtected(
                    AddAllProtected(ForceClear(Now), rows, RootUris, 1),
                    rows, KeyDirectories, 1)
       IN  /\ kgNodes' = rows
           /\ kgRelations' = x.relations
           /\ nextId' = x.nextId
           /\ SetCache(c)
           /\ last' = Last("initialize_with_root_nodes", "none", TRUE, "ok",
                           None, Len(nodes))
    /\ run' = RunOff
    /\ UNCHANGED <<max_size, hash_order, travVars, otherVars>>

\* An empty store and an empty cache of a capacity up to MaxSizeBound, in a
\* process whose sets list the URIs of the roots before the others.
InitRoots ==
    /\ kgNodes = <<>>
    /\ kgRelations = {}
    /\ nextId = 1
    /\ InitTraverse
    /\ InitOther
    /\ max_size \in 1..MaxSizeBound
    /\ hash_order = KeyDirectories \o RootUris \o UriOrder
    /\ nodes = <<>>
    /\ protected_uris = {}
    /\ file = AbsentFile
    /\ last = Last("construct", "none", FALSE, "ok", None, 0)
    /\ run = RunOff

\* The nodes stored before the call: the directories, a project concept of
\* another version, and a node u1 that is no root.
RootStoreInputs ==
    {MkNode(u, 1) : u \in {"dir://.", "dir://src", "dir://design_docs", "u1"}}
    \cup {MkNode(MainProjectUri, 2)}

\* The nodes cached before the call.
RootAddInputs == {MkNode("u1", 1), MkNode("dir://src", 1)}

NextRoots ==
    \/ \E node \in RootStoreInputs : StoreAddNode(node)
    \/ \E node \in RootAddInputs, protected \in BOOLEAN : DoAdd(node, protected)
    \/ DoAddProtectedUri("u2")
    \/ InitializeWithRootNodes

SpecRoots == InitRoots /\ [][NextRoots]_vars

\* The five project concepts are nodes, resident and protected, and every
\* resident URI is protected.
RootsPinned ==
    /\ \A u \in Range(SubConcepts) \cup {MainProjectUri} :
          u \in DOMAIN kgNodes /\ Resident(u) /\ u \in protected_uris
    /\ \A u \in Range(Keys(nodes)) : u \in protected_uris

\* The URIs that were resident or protected before a step and are so after.
Survivors ==
    {u \in Range(Keys(nodes)) \cup protected_uris :
        u \in Range(Keys(nodes')) \cup protected_uris'}

\* C22: after initialize_with_root_nodes the five project concepts are
\* nodes, resident and protected, and every resident URI is protected; a URI
\* that was resident or protected before the call is so after it only when
\* it is one of root_uris.
C22_OnlyRootsSurvive ==
    [][InitializeWithRootNodes =>
          /\ RootsPinned'
          /\ Survivors \subseteq Range(RootUris)]_vars

\* C22, amended: after initialize_with_root_nodes the five project concepts
\* are nodes, resident and protected, and every resident URI is protected; a
\* URI that was resident or protected before the call is so after it only
\* when it is one of root_uris or of key_directories.
C22_OnlyRootsAndKeyDirectoriesSurvive ==
    [][InitializeWithRootNodes =>
          /\ RootsPinned'
          /\ Survivors \subseteq Range(RootUris) \cup Range(KeyDirectories)]_vars

\* C22's case: the call emptied a cache that held entries and left more
\* than max_size entries, dir://src among them.
C22_Witness ==
    /\ last.op = "initialize_with_root_nodes"
    /\ last.nev > 0
    /\ Len(nodes) > max_size
    /\ Resident("dir://src")
    /\ "u1" \in DOMAIN kgNodes

\* ---------------------------------------------------- the file after a call

\* The cache operations that persist: add, get, clear, force_clear,
\* add_protected_uri, remove_protected_uri and the get of a traverse step.
PersistingOps ==
    {"add", "get", "clear", "force_clear", "add_protected_uri",
     "remove_protected_uri", "traverse"}

\* The state file lists the keys of nodes in their order and the members of
\* _protected_uris: what reading the file yields is what the fields hold.
FileListsCache ==
    LET l == Load(file)
    IN  /\ Keys(l.nodes) = Keys(nodes)
        /\ l.protected_uris = protected_uris

\* C25: after add, get, clear, force_clear, add_protected_uri,
\* remove_protected_uri and each get made by traverse, the state file lists
\* the resident URIs in the order of the cache and the protected set.
C25_FileListsCacheAfterCall ==
    last.op \in PersistingOps => FileListsCache

\* ------------------------------------------- what a traversal leaves out

\* PathCosts for a budget of mc.
RECURSIVE PathCostsUpTo(_, _)
PathCostsUpTo(S, mc) ==
    LET Step(p) ==
            {<<IF r.source_uri = p[1] THEN r.target_uri ELSE r.source_uri,
               p[2] + r.weight>> :
               r \in {e \in kgRelations : e.source_uri = p[1]
                                           \/ e.target_uri = p[1]}}
        T == S \cup UNION {Step(p) : p \in S}
        U == {p \in T : p[2] <= mc}
    IN  IF U = S THEN S ELSE PathCostsUpTo(U, mc)

\* The rows of nodes whose minimum path cost from su is at most mc.
NodesWithin(su, mc) ==
    {u \in DOMAIN kgNodes : \E p \in PathCostsUpTo({<<su, 0>>}, mc) : p[1] = u}

\* C27: the list that traverse(start_uri, kg, max_cost) returns holds every
\* row of nodes whose minimum path cost from start_uri, over relations taken
\* in either direction, is at most max_cost: the list of the while loop, and
\* the empty list returned for a start_uri that is no row of nodes.
C27_ReturnsAllWithinBudget ==
    [][/\ TraverseEnd =>
            NodesWithin(start_uri, max_cost) \subseteq Range(Uris(context_nodes))
       /\ \A su \in CoreUris, mc \in 0..MaxCost :
            (TraverseBegin(su, mc) /\ KgGetNode(su) = None) =>
                NodesWithin(su, mc) = {}]_vars

\* ------------------------------------------------- the bound of the cache

\* A cache that starts empty, with no state file, over the store of u1 and
\* u2.
InitBound ==
    /\ InitStore
    /\ InitTraverse
    /\ InitOther
    /\ max_size \in 1..MaxSizeBound
    /\ hash_order = UriOrder
    /\ nodes = <<>>
    /\ protected_uris = {}
    /\ file = AbsentFile
    /\ last = Last("construct", "none", FALSE, "ok", None, 0)
    /\ run = RunEmpty

\* The nodes added: one for each URI.
BoundAddInputs == {MkNode(u, 1) : u \in CoreUris}

NextBound ==
    \/ \E node \in BoundAddInputs, protected \in BOOLEAN : DoAdd(node, protected)
    \/ \E u \in CoreUris : DoGet(u)
    \/ DoClear
    \/ \E u \in CoreUris : DoAddProtectedUri(u)
    \/ \E u \in CoreUris : DoRemoveProtectedUri(u)
    \/ \E u \in CoreUris : TraverseBegin(u, MaxCost)
    \/ TraverseStep
    \/ TraverseEnd

SpecBound == InitBound /\ [][NextBound]_vars

\* The number of keys of the cache that are not protected.
NonProtected(ns, ps) == Cardinality({u \in Range(Keys(ns)) : u \notin ps})

\* C26: from an empty cache, after add, get, traverse, clear,
\* add_protected_uri and remove_protected_uri, the number of keys of the
\* cache that are not protected is at most max_size.
C26_NonProtectedBounded ==
    NonProtected(nodes, protected_uris) <= max_size

\* C26, amended: a call other than remove_protected_uri of a resident URI
\* leaves the number of keys that are not protected at most max_size when
\* it was so before the call.
C26_BoundedUnlessUnprotected ==
    [][(/\ NonProtected(nodes, protected_uris) <= max_size
        /\ ~(last'.op = "remove_protected_uri" /\ Resident(last'.uri))) =>
            NonProtected(nodes', protected_uris') <= max_size]_vars

\* C26's case: an add that is not protected evicted to insert its node
\* next to a protected entry, leaving keys that are not protected.
C26_Witness ==
    /\ last.op = "add"
    /\ last.out = "inserted"
    /\ ~last.prot
    /\ last.nev > 0
    /\ NonProtected(nodes, protected_uris) >= 1
    /\ \E u \in protected_uris : Resident(u)

\* ------------------------------------------------ a process that stops

\* The state file after open(path, "w") and before json.dump has written
\* and the file is closed: empty or a prefix of the object, which is not
\* JSON.
Truncated == [AbsentFile EXCEPT !.kind = "invalid"]

\* A call that ends in _save, up to the open(path, "w") of _save: the fields
\* are those of c and the file is truncated.
CallOpens(c, op, u) ==
    /\ tpc = "idle"
    /\ nodes' = c.nodes
    /\ protected_uris' = c.protected_uris
    /\ file' = Truncated
    /\ tpc' = "save"
    /\ last' = Last(op, u, FALSE, "saving", None, 0)
    /\ run' = RunOff
    /\ UNCHANGED <<max_size, hash_order, storeVars, queue, visited_costs,
                   context_nodes, max_cost, start_uri, otherVars>>

\* ac.add(node, protected) up to the open of its last _save; an add that
\* drops the node returns without _save.
AddOpens(node, protected) ==
    LET a == Add(Now, node, protected)
    IN  IF a.out = "dropped" THEN DoAdd(node, protected)
        ELSE CallOpens(a.c, "add", node.uri)

\* ac.add_protected_uri(uri) up to the open of _save.
AddProtectedUriOpens(u) ==
    CallOpens(AddProtectedUri(Now, u), "add_protected_uri", u)

\* ac.remove_protected_uri(uri) up to the open of _save.
RemoveProtectedUriOpens(u) ==
    CallOpens(RemoveProtectedUri(Now, u), "remove_protected_uri", u)

\* ac.clear() up to the open of _save.
ClearOpens == CallOpens(Clear(Now), "clear", "none")

\* ac.force_clear() up to the open of _save.
ForceClearOpens == CallOpens(ForceClear(Now), "force_clear", "none")

\* json.dump writes the object, the with block closes the file and the call
\* returns.
SaveCloses ==
    /\ tpc = "save"
    /\ file' = Save(Now).file
    /\ tpc' = "idle"
    /\ last' = [last EXCEPT !.out = "ok"]
    /\ UNCHANGED <<max_size, hash_order, nodes, protected_uris, run, storeVars,
                   queue, visited_costs, context_nodes, max_cost, start_uri,
                   otherVars>>

\* The process stops between the open and the end of json.dump, and a new
\* process constructs the cache from the file as it is.
StopsInSave(ms) ==
    /\ tpc = "save"
    /\ Construct(ms, hash_order, file)
    /\ tpc' = "idle"
    /\ UNCHANGED <<storeVars, queue, visited_costs, context_nodes, max_cost,
                   start_uri, otherVars>>

NextCrash ==
    \/ \E node \in BoundAddInputs, protected \in BOOLEAN : AddOpens(node, protected)
    \/ \E u \in CoreUris : AddProtectedUriOpens(u)
    \/ \E u \in CoreUris : RemoveProtectedUriOpens(u)
    \/ ClearOpens
    \/ ForceClearOpens
    \/ SaveCloses
    \/ \E ms \in 1..MaxSizeBound : StopsInSave(ms)
    \/ \E ms \in 1..MaxSizeBound : Restart(ms, hash_order)

\* The calls in two steps, from a cache that starts empty with no state file.
SpecCrash == InitBound /\ [][NextCrash]_vars

\* C23: the state file is rewritten atomically: every step leaves the file
\* as it was or holding the whole of the new state, and a process that
\* starts never reads a file that a save left empty or partial.
C23_SaveIsAtomic ==
    [][/\ file' \in {file, Save(Cache(nodes', protected_uris', file)).file}
       /\ last'.op = "construct" => file.kind # "invalid"]_vars

\* ------------------------------------------- two instances on one file

\* The cache state of the second instance.
PeerNow == Cache(peer.nodes, peer.protected_uris, file)

\* The second instance takes the fields of c and the file is c's.
SetPeer(c) ==
    /\ peer' = [nodes |-> c.nodes, protected_uris |-> c.protected_uris]
    /\ file' = c.file

\* add(node) by the second instance.
PeerAdd(node) ==
    /\ LET a == Add(PeerNow, node, FALSE)
       IN  /\ SetPeer(a.c)
           /\ last' = Last("peer.add", node.uri, FALSE, a.out, None,
                           Len(a.evicted))
    /\ run' = RunOff
    /\ UNCHANGED <<max_size, nodes, protected_uris, hash_order, storeVars,
                   travVars, txn>>

\* add_protected_uri(uri) by the second instance.
PeerAddProtectedUri(u) ==
    /\ SetPeer(AddProtectedUri(PeerNow, u))
    /\ last' = Last("peer.add_protected_uri", u, TRUE, "ok", None, 0)
    /\ run' = RunOff
    /\ UNCHANGED <<max_size, nodes, protected_uris, hash_order, storeVars,
                   travVars, txn>>

\* remove_protected_uri(uri) by the second instance.
PeerRemoveProtectedUri(u) ==
    /\ SetPeer(RemoveProtectedUri(PeerNow, u))
    /\ last' = Last("peer.remove_protected_uri", u, FALSE, "ok", None, 0)
    /\ run' = RunOff
    /\ UNCHANGED <<max_size, nodes, protected_uris, hash_order, storeVars,
                   travVars, txn>>

\* The URIs the two instances work on.
SharedUris == {"u1", "u2"}

\* Two instances constructed when there is no state file; their calls
\* interleave in any order.
NextShared ==
    \/ \E u \in SharedUris : DoAdd(MkNode(u, 1), FALSE)
    \/ \E u \in SharedUris : DoAddProtectedUri(u)
    \/ \E u \in SharedUris : DoRemoveProtectedUri(u)
    \/ \E u \in SharedUris : PeerAdd(MkNode(u, 1))
    \/ \E u \in SharedUris : PeerAddProtectedUri(u)
    \/ \E u \in SharedUris : PeerRemoveProtectedUri(u)

SpecShared == InitBound /\ [][NextShared]_vars

\* The calls of the first and of the second instance that end in _save.
Saved(l, prefix) ==
    \/ l.op \in {prefix \o "add_protected_uri", prefix \o "remove_protected_uri"}
    \/ l.op = prefix \o "add" /\ l.out # "dropped"

\* C28: two instances on one state file lose updates: when a call of one
\* instance has saved, the file lists no cached URI and no protected URI
\* that only the other instance holds.
C28_SaveLosesOtherUpdates ==
    [][/\ Saved(last', "peer.") =>
            /\ Range(file'.nodes) \cap Range(Keys(nodes))
                    \subseteq Range(Keys(peer'.nodes))
            /\ Range(file'.prot) \cap protected_uris
                    \subseteq peer'.protected_uris
       /\ Saved(last', "") =>
            /\ Range(file'.nodes) \cap Range(Keys(peer.nodes))
                    \subseteq Range(Keys(nodes'))
            /\ Range(file'.prot) \cap peer.protected_uris
                    \subseteq protected_uris']_vars

\* C28's case: the first instance has protected u1 and cached u2, the second
\* instance saved after it, and the file lists neither.
C28_Witness ==
    /\ Saved(last, "peer.")
    /\ "u1" \in protected_uris
    /\ Resident("u2")
    /\ "u1" \notin Range(file.prot)
    /\ "u2" \notin Range(file.nodes)

\* ------------------------------------------- move_node, step by step

\* The rows of the store.
Rows(ns, rs) == [nodes |-> ns, relations |-> rs]

\* Every statement of the transaction writes through to the rows that other
\* connections read.
DurableAutocommit(committed, working, committing) == working

\* The rows that other connections read after a statement of the
\* transaction of "with self._conn": the rows committed before it, until the
\* commit makes them the rows of the transaction.
Durable(committed, working, committing) ==
    IF committing THEN working ELSE committed

\* The transaction after a statement: at pc, with the rows as this
\* connection sees them.
Txn(pc, old, new, w) ==
    [pc |-> pc, old |-> old, new |-> new, nodes |-> w.nodes,
     relations |-> w.relations]

\* No transaction is open; old and new were the arguments of the last call.
Closed(old, new) == [NoTxn EXCEPT !.old = old, !.new = new]

\* A statement of move_node left the rows w to this connection.
Statement(pc, w, n) ==
    /\ txn' = Txn(pc, txn.old, txn.new, w)
    /\ LET d == Durable(Rows(kgNodes, kgRelations), w, FALSE)
       IN  kgNodes' = d.nodes /\ kgRelations' = d.relations
    /\ last' = Last("move_node", txn.old, FALSE, "running", None, n)

\* A statement of move_node raised sqlite3.IntegrityError: the with block
\* rolls the transaction back and the exception escapes.
RolledBack(n) ==
    /\ txn' = Closed(txn.old, txn.new)
    /\ last' = Last("move_node", txn.old, FALSE, "integrity", None, n)
    /\ UNCHANGED <<kgNodes, kgRelations>>

\* move_node(old_uri, new_uri): the SELECT that looks for new_uri, and the
\* ValueError when it finds a row.
MoveSelect(old, new) ==
    /\ txn.pc = "none"
    /\ IF new \in DOMAIN kgNodes
       THEN /\ txn' = Closed(old, new)
            /\ last' = Last("move_node", old, FALSE, "exists", None, 1)
       ELSE /\ txn' = Txn("nodes", old, new, Rows(kgNodes, kgRelations))
            /\ last' = Last("move_node", old, FALSE, "running", None, 1)
    /\ UNCHANGED <<kgNodes, kgRelations, nextId, cacheVars, travVars, run, peer>>

\* UPDATE nodes SET uri = new WHERE uri = old
MoveUpdateNodes ==
    /\ txn.pc = "nodes"
    /\ Statement("source",
                 Rows(MoveNodeUnchecked(txn.nodes, {}, txn.old, txn.new).nodes,
                      txn.relations), 2)
    /\ UNCHANGED <<nextId, cacheVars, travVars, run, peer>>

\* UPDATE relations SET source_uri = new WHERE source_uri = old
MoveUpdateSource ==
    /\ txn.pc = "source"
    /\ LET rels2 == SetSource(txn.relations, txn.old, txn.new)
       IN  IF UniqueTriples(rels2)
           THEN Statement("target", Rows(txn.nodes, rels2), 3)
           ELSE RolledBack(3)
    /\ UNCHANGED <<nextId, cacheVars, travVars, run, peer>>

\* UPDATE relations SET target_uri = new WHERE target_uri = old
MoveUpdateTarget ==
    /\ txn.pc = "target"
    /\ LET rels3 == SetTarget(txn.relations, txn.old, txn.new)
       IN  IF UniqueTriples(rels3)
           THEN Statement("commit", Rows(txn.nodes, rels3), 4)
           ELSE RolledBack(4)
    /\ UNCHANGED <<nextId, cacheVars, travVars, run, peer>>

\* The with block ends: the transaction is committed.
MoveCommit ==
    /\ txn.pc = "commit"
    /\ txn' = Closed(txn.old, txn.new)
    /\ LET d == Durable(Rows(kgNodes, kgRelations),
                        Rows(txn.nodes, txn.relations), TRUE)
       IN  kgNodes' = d.nodes /\ kgRelations' = d.relations
    /\ last' = Last("move_node", txn.old, FALSE, "ok", None, 4)
    /\ UNCHANGED <<nextId, cacheVars, travVars, run, peer>>

\* The store's calls, one at a time, with move_node statement by statement.
NextRename ==
    \/ txn.pc = "none" /\ \E u \in CoreUris : StoreAddNode(MkNode(u, 1))
    \/ txn.pc = "none" /\
          \E r \in RelationInputs : StoreAddRelation(r[1], r[2], r[3], r[4], r[5])
    \/ \E m \in MoveInputs : MoveSelect(m[1], m[2])
    \/ MoveUpdateNodes
    \/ MoveUpdateSource
    \/ MoveUpdateTarget
    \/ MoveCommit

SpecRename == InitStoreSpec /\ [][NextRename]_vars

\* Another connection reads the node under new and a relation that still
\* names old.
Torn(v, old, new) ==
    /\ new \in DOMAIN v.nodes
    /\ old \notin DOMAIN v.nodes
    /\ \E r \in v.relations : r.source_uri = old \/ r.target_uri = old

\* C30: move_node is all or nothing: each of its steps leaves the rows that
\* other connections read as they were, or is the commit that leaves the
\* whole rename; a call that fails with the ValueError or with the
\* IntegrityError leaves them as they were; and while the call runs and when
\* it has committed, no other connection reads the node under new_uri next
\* to a relation that names old_uri.
C30_RenameAllOrNothing ==
    [][txn' # txn =>
          /\ \/ kgNodes' = kgNodes /\ kgRelations' = kgRelations
             \/ /\ last'.out = "ok"
                /\ MoveNode(kgNodes, kgRelations, txn'.old, txn'.new) =
                     [nodes |-> kgNodes', relations |-> kgRelations',
                      out |-> "ok"]
          /\ last'.out \in {"exists", "integrity"} =>
                /\ kgNodes' = kgNodes /\ kgRelations' = kgRelations
                /\ MoveNode(kgNodes, kgRelations, txn'.old, txn'.new).out =
                     last'.out
          /\ last'.out \in {"running", "ok"} =>
                ~Torn(Rows(kgNodes', kgRelations'), txn'.old, txn'.new)]_vars

\* C30's case: the UPDATE of target_uri failed after the node and the
\* sources were rewritten in the transaction, and the store still holds the
\* node under old_uri with the relations that name it.
C30_Witness ==
    /\ last.op = "move_node"
    /\ last.out = "integrity"
    /\ last.nev = 4
    /\ last.uri \in DOMAIN kgNodes
    /\ \E r \in kgRelations : r.source_uri = last.uri
    /\ \E r \in kgRelations : r.target_uri = last.uri

\* ------------------------------------------------- the triples of relations

\* C31: after add_relation, move_node, delete_node and delete_relation, no
\* two rows of relations have the same source_uri, target_uri and
\* relation_type.
C31_TriplesUnique == UniqueTriples(kgRelations)

\* C31's case: a move_node whose rewrite of the ends would have made two rows
\* of one triple was rolled back, and both rows are still there.
C31_Witness ==
    /\ last.op = "move_node"
    /\ last.out = "integrity"
    /\ Cardinality(kgRelations) >= 2

\* ------------------------------------------------ touching a resident URI

\* The keys of od with u moved behind the others, which keep their order.
Promoted(od, u) == SelectSeq(Keys(od), LAMBDA x : x # u) \o <<u>>

\* C32: add of a node whose URI is a key of the cache, and get of a key whose
\* value is resolved, move the key to the end and evict nothing: the other
\* keys stay, in their order, whatever max_size is.
C32_TouchPromotesOnly ==
    [][(\/ last'.op = "add" /\ Has(nodes, last'.uri)
        \/ /\ last'.op = "get"
           /\ Has(nodes, last'.uri)
           /\ Value(nodes, last'.uri) # None) =>
          /\ Keys(nodes') = Promoted(nodes, last'.uri)
          /\ last'.nev = 0
          /\ last'.out \in {"promoted", "hit"}]_vars

\* C32's case: a get served from a cache that holds more than max_size
\* entries, none of them protected, left them all and the key at the end.
C32_Witness ==
    /\ last.op = "get"
    /\ last.out = "hit"
    /\ Len(nodes) > max_size
    /\ protected_uris = {}
    /\ nodes[Len(nodes)].uri = last.uri

\* --------------------------------------------- get of a URI not resident

\* C33: get(uri, kg) of a URI that is no key of the cache returns None and
\* changes neither the cache nor the state file when the store has no such
\* node; when it has, get returns the node and uri is the last key.
C33_GetMissLoadsOrAbsent ==
    [][(last'.op = "get" /\ ~Has(nodes, last'.uri)) =>
          IF KgGetNode(last'.uri) = None
          THEN /\ last'.ret = None
               /\ nodes' = nodes
               /\ protected_uris' = protected_uris
               /\ file' = file
          ELSE /\ last'.ret = KgGetNode(last'.uri)
               /\ nodes' # <<>>
               /\ nodes'[Len(nodes')].uri = last'.uri]_vars

\* C33, amended: when the store has the node, get returns it, and uri is the
\* last key unless the cache held max_size or more protected entries: then
\* the node is returned and uri is no key.
C33_GetMissLoadsUnlessPinned ==
    [][(last'.op = "get" /\ ~Has(nodes, last'.uri)) =>
          IF KgGetNode(last'.uri) = None
          THEN /\ last'.ret = None
               /\ nodes' = nodes
               /\ protected_uris' = protected_uris
               /\ file' = file
          ELSE /\ last'.ret = KgGetNode(last'.uri)
               /\ IF ProtectedEntries < max_size
                  THEN nodes' # <<>> /\ nodes'[Len(nodes')].uri = last'.uri
                  ELSE ~Has(nodes', last'.uri)]_vars

\* C33's case: a get fetched the node from the store and evicted to insert
\* it as the last key, next to a protected entry.
C33_Witness ==
    /\ last.op = "get"
    /\ last.out = "inserted"
    /\ last.nev > 0
    /\ last.ret = KgGetNode(last.uri)
    /\ nodes[Len(nodes)].uri = last.uri
    /\ ProtectedEntries >= 1

\* --------------------------------------------- a node dequeued twice

\* The store of u1, u2 and u3 under a graph whose edges are absent, free or
\* of weight MaxCost, and a cache that starts empty.
InitRevisit ==
    /\ kgNodes = [u \in CoreUris |-> MkNode(u, 1)]
    /\ kgRelations \in GraphsOver({-1, 0, MaxCost})
    /\ nextId = 5
    /\ InitTraverse
    /\ InitOther
    /\ max_size = 1
    /\ hash_order = UriOrder
    /\ nodes = <<>>
    /\ protected_uris = {}
    /\ file = AbsentFile
    /\ last = Last("construct", "none", FALSE, "ok", None, 0)
    /\ run = RunOff

\* The nodes a caller adds as protected: the store's u1, and a u2 whose
\* fields differ from the store's.
RevisitAddInputs == {MkNode("u1", 1), MkNode("u2", 2)}

\* Protected adds, remove_protected_uri and traverse.
NextRevisit ==
    \/ \E node \in RevisitAddInputs : DoAdd(node, TRUE)
    \/ \E u \in {"u1", "u2"} : DoRemoveProtectedUri(u)
    \/ \E u \in CoreUris : TraverseBegin(u, MaxCost)
    \/ TraverseStep
    \/ TraverseEnd

SpecRevisit == InitRevisit /\ [][NextRevisit]_vars

\* C34: the list traverse builds holds each URI once, starts with start_uri
\* and grows at its end only: a step appends the node of the URI it
\* dequeued, or leaves the list as it is when the URI is already in it.
C34_ListedOnceInVisitOrder ==
    [][TraverseStep =>
          /\ \/ context_nodes' = context_nodes
             \/ /\ context_nodes' = Append(context_nodes, last'.ret)
                /\ last'.ret.uri = last'.uri
          /\ \A i, j \in 1..Len(context_nodes') :
                context_nodes'[i].uri = context_nodes'[j].uri => i = j
          /\ context_nodes' # <<>> => context_nodes'[1].uri = start_uri]_vars

\* ------------------------------------------ traverse from no node

\* C35: traverse(start_uri, kg, max_cost) of a start_uri that is no row of
\* nodes returns the empty list at once and leaves the keys of the cache, the
\* protected set and the state file as they were, whatever relations name
\* start_uri.
C35_MissingStartReturnsEmpty ==
    [][\A su \in CoreUris, mc \in 0..MaxCost :
          (TraverseBegin(su, mc) /\ KgGetNode(su) = None) =>
              /\ last'.out = "returned"
              /\ tpc' = "idle"
              /\ context_nodes' = <<>>
              /\ nodes' = nodes
              /\ protected_uris' = protected_uris
              /\ file' = file]_vars

\* C35's case: traverse returned at once for a start_uri that is no node
\* and that a relation joins to a node, with an entry in the cache.
C35_Witness ==
    /\ last.op = "traverse"
    /\ last.out = "returned"
    /\ last.uri # "none"
    /\ KgGetNode(last.uri) = None
    /\ \E r \in kgRelations :
         /\ r.source_uri = last.uri \/ r.target_uri = last.uri
         /\ r.source_uri \in DOMAIN kgNodes \/ r.target_uri \in DOMAIN kgNodes
    /\ nodes # <<>>


\* ------------------------------------------------- what list_nodes returns

\* The entries list_nodes can return: those holding a node and the
\* placeholders whose URI the store has.
Listable(od) ==
    SelectSeq(od, LAMBDA e : e.node # None \/ e.uri \in DOMAIN kgNodes)

\* C36: list_nodes(kg) returns, in the order of the cache, exactly the
\* entries that hold a node or whose URI the store has, the first with the
\* node they hold and the second with the store's node; a placeholder whose
\* URI the store lacks is left out and stays a placeholder; the URIs of the
\* cache and the protected set are as before.
C36_ListNodesReturnsResolvable ==
    [][DoListNodes =>
          LET res == ListNodesResult(nodes)
              exp == Listable(nodes)
          IN  /\ Keys(nodes') = Keys(nodes)
              /\ protected_uris' = protected_uris
              /\ Len(res) = Len(exp)
              /\ \A i \in 1..Len(exp) :
                    res[i] = IF exp[i].node # None THEN exp[i].node
                             ELSE KgGetNode(exp[i].uri)
              /\ \A i \in 1..Len(res) : Value(nodes', res[i].uri) = res[i]
              /\ \A i \in 1..Len(nodes) :
                    (nodes[i].node = None /\ nodes[i].uri \notin DOMAIN kgNodes) =>
                        /\ nodes'[i] = nodes[i]
                        /\ \A j \in 1..Len(res) : res[j].uri # nodes[i].uri]_vars

C36_Witness ==
    /\ last.op = "list_nodes"
    /\ last.out = "resolved"
    /\ \E i, j \in 1..Len(nodes) :
          /\ i < j
          /\ nodes[i].node = None
          /\ nodes[i].uri \notin DOMAIN kgNodes
          /\ nodes[j].node # None
          /\ nodes[j].node = KgGetNode(nodes[j].uri)
    /\ protected_uris # {}


\* ------------------------------------------- the links add_concept makes

\* The URIs that the links of the content of version v name.
LinkedUris(v) ==
    {ExtractConceptLinks(ContentOf[v])[i] :
        i \in 1..Len(ExtractConceptLinks(ContentOf[v]))}

\* Some references relation of rels goes from u to t.
References(rels, u, t) ==
    \E r \in rels : SameTriple(r, u, t, "references")

\* C37, as claimed: after add_concept(uri, name, content) there is a
\* references relation from uri to every linked URI that was a node when
\* the call was made, and for every linked URI that was no node then the
\* call made no relation that names it and no node.
C37_LinksToNodesAtCallTime ==
    [][last'.op = "add_concept" =>
          \A t \in LinkedUris(last'.ret.ver) :
              IF t \in DOMAIN kgNodes
              THEN References(kgRelations', last'.uri, t)
              ELSE /\ {r \in kgRelations' : r.source_uri = t \/ r.target_uri = t}
                          \subseteq kgRelations
                   /\ t \notin DOMAIN kgNodes']_vars

\* C37, amended: after add_concept(uri, name, content) there is a
\* references relation from uri to every linked URI that was a node when
\* the call was made or is uri itself, and for every other linked URI the
\* call made no relation that names it and no node.
C37_LinksToNodesOrItself ==
    [][last'.op = "add_concept" =>
          \A t \in LinkedUris(last'.ret.ver) :
              IF t \in DOMAIN kgNodes \/ t = last'.uri
              THEN References(kgRelations', last'.uri, t)
              ELSE /\ {r \in kgRelations' : r.source_uri = t \/ r.target_uri = t}
                          \subseteq kgRelations
                   /\ t \notin DOMAIN kgNodes']_vars

C37_Witness ==
    /\ last.op = "add_concept"
    /\ last.out = "created"
    /\ \E t \in LinkedUris(last.ret.ver) :
          /\ t # last.uri
          /\ \E r \in kgRelations :
                /\ SameTriple(r, last.uri, t, "references")
                /\ IsMarkdownReference(r.metadata)
          /\ References(kgRelations, t, t)


\* -------------------------------------------------- update_concept, twice

\* The relations without their ids.
Edges(rels) ==
    {<<r.source_uri, r.target_uri, r.relation_type, r.weight, r.metadata>> :
        r \in rels}

\* The relations that update_concept(u, name, content) of version v leaves
\* when it is called on the rows and relations given and the store has u.
RelationsAfterUpdate(rows, rels, id, u, v) ==
    CreateConceptLinks(UpdateNodeRows(rows, [rows[u] EXCEPT !.ver = v]),
                       DeleteLinks(rels, u), id, u,
                       ExtractConceptLinks(ContentOf[v]), 1).relations

\* C38: update_concept with the name and content it was last called with
\* leaves the relations, ids apart, that the first of the two calls left,
\* whatever relations the store held before the first call.
C38_UpdateTwiceIsUpdateOnce ==
    [][(last'.op = "update_concept" /\ last'.out # "absent") =>
          /\ kgRelations' = RelationsAfterUpdate(kgNodes, kgRelations, nextId,
                                                 last'.uri, last'.ret.ver)
          /\ Edges(RelationsAfterUpdate(kgNodes', kgRelations', nextId',
                                        last'.uri, last'.ret.ver))
                = Edges(kgRelations')
          /\ (/\ last.op = "update_concept"
              /\ last.out # "absent"
              /\ last.uri = last'.uri
              /\ last.ret.ver = last'.ret.ver) =>
                   Edges(kgRelations') = Edges(kgRelations)]_vars

\* C38's case: an update_concept with content that has a link deleted the
\* relation made from that link before and made it again under a new id.
C38_Witness ==
    /\ last.op = "update_concept"
    /\ last.out # "absent"
    /\ last.nev = 1
    /\ nextId = 3
    /\ \E r \in kgRelations :
          /\ r.id = 2
          /\ SameTriple(r, last.uri, "u2", "references")
          /\ IsMarkdownReference(r.metadata)
    /\ last.uri = "u1"
    /\ last.ret.ver = 1


\* ------------------------------------------- what update_concept deletes

\* C39: the relations that update_concept(uri, ...) removes all have uri as
\* their source, the type references and the markers of a link; every other
\* relation of the store is a relation of the store afterwards, with its id,
\* its weight and its metadata.
C39_DeletesOnlyMarkedLinks ==
    [][last'.op = "update_concept" =>
          \A r \in kgRelations \ kgRelations' :
              /\ r.source_uri = last'.uri
              /\ r.relation_type = "references"
              /\ IsMarkdownReference(r.metadata)]_vars

\* C39's case: the call deleted a relation made from a link and the store
\* keeps a relation of another type from uri that carries the markers.
C39_Witness ==
    /\ last.op = "update_concept"
    /\ last.nev = 1
    /\ \E r \in kgRelations :
          /\ r.source_uri = last.uri
          /\ r.relation_type = "contains"
          /\ IsMarkdownReference(r.metadata)
    /\ ReferencesFrom(kgRelations, last.uri) = {}


\* ------------------------------------------ initialize_with_root_nodes, twice

\* The store and the cache that initialize_with_root_nodes leaves when it is
\* called on the store and the cache given.
AfterInitialize(rows, rels, id, c) ==
    LET rows2 == EnsureProjectDetailsExist(rows)
        c2 == AddAllProtected(
                  AddAllProtected(ForceClear(c), rows2, RootUris, 1),
                  rows2, KeyDirectories, 1)
    IN  [kgNodes |-> rows2,
         kgRelations |-> AddRelationsAll(rels, id, ProjectRelations(rows2),
                                         1).relations,
         nodes |-> c2.nodes,
         protected_uris |-> c2.protected_uris]

\* What the store and the cache hold.
Held(rows, rels, od, ps) ==
    [kgNodes |-> rows, kgRelations |-> rels, nodes |-> od,
     protected_uris |-> ps]

\* C40: a second initialize_with_root_nodes right after a first leaves the
\* nodes and relations of the store, the entries of the cache in their order
\* and the protected set as the first left them; no triple has two
\* relations, and a project concept stored before the call keeps its name and
\* content.
C40_InitializeTwiceIsOnce ==
    [][InitializeWithRootNodes =>
          /\ Held(kgNodes', kgRelations', nodes', protected_uris')
                = AfterInitialize(kgNodes, kgRelations, nextId, Now)
          /\ AfterInitialize(kgNodes', kgRelations', nextId',
                             Cache(nodes', protected_uris', file'))
                = Held(kgNodes', kgRelations', nodes', protected_uris')
          /\ last.op = "initialize_with_root_nodes" =>
                Held(kgNodes', kgRelations', nodes', protected_uris')
                   = Held(kgNodes, kgRelations, nodes, protected_uris)
          /\ UniqueTriples(kgRelations) => UniqueTriples(kgRelations')
          /\ \A u \in DOMAIN kgNodes : kgNodes'[u] = kgNodes[u]]_vars

\* C40's case: the second of two calls in a row, on a store that had a
\* project concept of its own and the directories before the first.
C40_Witness ==
    /\ last.op = "initialize_with_root_nodes"
    /\ nextId = 2 * MaxRootCalls + 1
    /\ Cardinality(kgRelations) = MaxRootCalls
    /\ kgNodes[MainProjectUri].ver = 2
    /\ Len(nodes) = Len(RootUris) + Len(KeyDirectories)
    /\ Len(nodes) > max_size
====
